---- MODULE Spec2Model ----
(***************************************************************************)
(* Text-to-animation pipeline of the speech_to_sign package:               *)
(*   nlp_processor.py       NLPProcessor (text normalizer)                 *)
(*   isl_mapper_new.py      ISLMapper.map_to_isl (validity filter)         *)
(*   sign_database.py       ISLDatabase (sign repository)                  *)
(*   animation_generator.py AnimationGenerator (motion synthesizer)        *)
(*                                                                         *)
(* A Python str is a sequence of one-character strings; a sign token is an *)
(* atomic string.  Times are integers in units of 1/TimeScale ms, so that  *)
(* the frame period 1000/fps ms is exact.                                  *)
(***************************************************************************)
EXTENDS Integers, Sequences, FiniteSets, TLC

\* ------------------------------------------------------------------------
\* Bounds of the model
\* ------------------------------------------------------------------------
MaxWords == 3      \* an input text is at most MaxWords pieces joined by blanks
MaxSigns == 3      \* a synthesis call gets at most MaxSigns sign tokens
MaxThreadSigns == 2   \* a thread's synthesis call gets at most MaxThreadSigns tokens
MaxClientWords == 1   \* a client's text is at most MaxClientWords pieces
ProgressSteps == 4    \* a progress argument is a multiple of 1/ProgressSteps

\* ------------------------------------------------------------------------
\* Characters and the str operations the normalizer uses
\* ------------------------------------------------------------------------
Lowercase == <<"a","b","c","d","e","f","g","h","i","j","k","l","m",
               "n","o","p","q","r","s","t","u","v","w","x","y","z">>
Uppercase == <<"A","B","C","D","E","F","G","H","I","J","K","L","M",
               "N","O","P","Q","R","S","T","U","V","W","X","Y","Z">>
Digits    == <<"0","1","2","3","4","5","6","7","8","9">>

Range(s) == { s[i] : i \in DOMAIN s }

InSeq(x, s) == \E i \in DOMAIN s : s[i] = x

Count(x, s) == Cardinality({ i \in DOMAIN s : s[i] = x })

\* \w of the regular expression (ASCII part) and \s
IsWordChar(c) == c \in Range(Lowercase) \cup Range(Uppercase) \cup Range(Digits) \cup {"_"}
IsSpace(c) == c \in {" ", "\t", "\n"}

char_lower(c) ==
  IF c \in Range(Uppercase)
  THEN Lowercase[CHOOSE i \in DOMAIN Uppercase : Uppercase[i] = c]
  ELSE c

char_upper(c) ==
  IF c \in Range(Lowercase)
  THEN Uppercase[CHOOSE i \in DOMAIN Lowercase : Lowercase[i] = c]
  ELSE c

\* str.lower(), str.upper()
str_lower(s) == [i \in DOMAIN s |-> char_lower(s[i])]
str_upper(s) == [i \in DOMAIN s |-> char_upper(s[i])]

\* str.strip()
RECURSIVE str_lstrip(_)
str_lstrip(s) ==
  IF s # <<>> /\ IsSpace(Head(s)) THEN str_lstrip(Tail(s)) ELSE s

RECURSIVE str_rstrip(_)
str_rstrip(s) ==
  IF s # <<>> /\ IsSpace(s[Len(s)]) THEN str_rstrip(SubSeq(s, 1, Len(s) - 1)) ELSE s

str_strip(s) == str_rstrip(str_lstrip(s))

\* str.split(): the maximal runs of non-blank characters
RECURSIVE str_split(_)
str_split(s) ==
  IF s = <<>> THEN <<>>
  ELSE IF IsSpace(Head(s)) THEN str_split(Tail(s))
  ELSE LET blanks == { i \in DOMAIN s : IsSpace(s[i]) }
           stop   == IF blanks = {} THEN Len(s) + 1
                     ELSE CHOOSE i \in blanks : \A j \in blanks : i <= j
       IN  <<SubSeq(s, 1, stop - 1)>> \o str_split(SubSeq(s, stop, Len(s)))

\* sep.join(parts)
RECURSIVE str_join(_, _)
str_join(sep, parts) ==
  IF parts = <<>> THEN <<>>
  ELSE IF Len(parts) = 1 THEN parts[1]
  ELSE parts[1] \o sep \o str_join(sep, Tail(parts))

\* sub in s
str_contains(sub, s) ==
  \E i \in 1..(Len(s) - Len(sub) + 1) : SubSeq(s, i, i + Len(sub) - 1) = sub

\* s.replace(old, new) for a non-empty old: leftmost, non-overlapping
RECURSIVE str_replace(_, _, _)
str_replace(s, old, new) ==
  IF Len(s) < Len(old) THEN s
  ELSE IF SubSeq(s, 1, Len(old)) = old
       THEN new \o str_replace(SubSeq(s, Len(old) + 1, Len(s)), old, new)
       ELSE <<Head(s)>> \o str_replace(Tail(s), old, new)

\* re.sub(r'[^\w\s]', ' ', text)
re_sub_punct(s) ==
  [i \in DOMAIN s |-> IF IsWordChar(s[i]) \/ IsSpace(s[i]) THEN s[i] ELSE " "]

\* ------------------------------------------------------------------------
\* NLPProcessor.__init__ : vocabulary, stop words, phrases, word mappings
\* ------------------------------------------------------------------------

class_labels ==
  << "0", "1", "2", "3", "4", "5", "6", "7", "8", "9", "A", "Alright", "Animal", "B", "Beautiful",
     "Bed", "Bedroom", "Bird", "Black", "Blind", "C", "Cat", "Chair", "Colour", "Cow", "D",
     "Daughter", "Deaf", "Dog", "Door", "Dream", "E", "F", "Father", "Fish", "Friday", "G",
     "Good Morning", "Good night", "Grey", "H", "Happy", "He", "Hello", "Horse", "How are you", "I",
     "It", "J", "K", "L", "Loud", "M", "Monday", "Mother", "Mouse", "N", "O", "Orange", "P",
     "Parent", "Pink", "Pleased", "Q", "Quiet", "R", "S", "Sad", "Saturday", "Sunday", "She", "Son",
     "T", "Table", "Thank you", "Thursday", "Today", "Tuesday", "U", "Ugly", "V", "W", "Wednesday",
     "White", "Window", "X", "Y", "You", "Z" >>

_get_basic_stopwords ==
  { <<"a">>, <<"a","b","o","v","e">>, <<"a","f","t","e","r">>, <<"a","g","a","i","n">>,
    <<"a","l","l">>, <<"a","l","s","o">>, <<"a","m">>, <<"a","n">>, <<"a","n","d">>,
    <<"a","n","y">>, <<"a","r","e">>, <<"a","s">>, <<"a","t">>, <<"b","e">>,
    <<"b","e","c","a","u","s","e">>, <<"b","e","e","n">>, <<"b","e","f","o","r","e">>,
    <<"b","e","i","n","g">>, <<"b","e","l","o","w">>, <<"b","e","t","w","e","e","n">>,
    <<"b","o","t","h">>, <<"b","u","t">>, <<"b","y">>, <<"c","a","n">>, <<"c","o","u","l","d">>,
    <<"d","a","r","e">>, <<"d","i","d">>, <<"d","o">>, <<"d","o","e","s">>,
    <<"d","u","r","i","n","g">>, <<"e","a","c","h">>, <<"f","e","w">>, <<"f","o","r">>,
    <<"f","r","o","m">>, <<"f","u","r","t","h","e","r">>, <<"h","a","d">>, <<"h","a","s">>,
    <<"h","a","v","e">>, <<"h","e","r","e">>, <<"i","f">>, <<"i","n">>, <<"i","n","t","o">>,
    <<"i","s">>, <<"j","u","s","t">>, <<"m","a","y">>, <<"m","i","g","h","t">>,
    <<"m","o","r","e">>, <<"m","o","s","t">>, <<"m","u","s","t">>, <<"n","e","e","d">>,
    <<"n","o">>, <<"n","o","t">>, <<"o","f">>, <<"o","n">>, <<"o","n","c","e">>,
    <<"o","n","l","y">>, <<"o","r">>, <<"o","t","h","e","r">>, <<"o","u","g","h","t">>,
    <<"o","w","n">>, <<"s","a","m","e">>, <<"s","h","a","l","l">>, <<"s","h","o","u","l","d">>,
    <<"s","o">>, <<"s","o","m","e">>, <<"s","u","c","h">>, <<"t","h","a","n">>,
    <<"t","h","a","t">>, <<"t","h","e">>, <<"t","h","e","n">>, <<"t","h","e","r","e">>,
    <<"t","h","e","s","e">>, <<"t","h","i","s">>, <<"t","h","o","s","e">>,
    <<"t","h","r","o","u","g","h">>, <<"t","o">>, <<"t","o","o">>, <<"u","n","d","e","r">>,
    <<"u","n","t","i","l">>, <<"u","s","e","d">>, <<"v","e","r","y">>, <<"w","a","s">>,
    <<"w","e","r","e">>, <<"w","h","a","t">>, <<"w","h","e","n">>, <<"w","h","e","r","e">>,
    <<"w","h","i","c","h">>, <<"w","h","i","l","e">>, <<"w","h","o">>, <<"w","h","o","m">>,
    <<"w","h","y">>, <<"w","i","l","l">>, <<"w","i","t","h">>, <<"w","o","u","l","d">> }

\* stopwords.words('english') of the external NLTK library
nltk_stopwords_english ==
  { <<"i">>, <<"m","e">>, <<"m","y">>, <<"m","y","s","e","l","f">>, <<"w","e">>, <<"o","u","r">>,
    <<"o","u","r","s">>, <<"o","u","r","s","e","l","v","e","s">>, <<"y","o","u">>,
    <<"y","o","u","'","r","e">>, <<"y","o","u","'","v","e">>, <<"y","o","u","'","l","l">>,
    <<"y","o","u","'","d">>, <<"y","o","u","r">>, <<"y","o","u","r","s">>,
    <<"y","o","u","r","s","e","l","f">>, <<"y","o","u","r","s","e","l","v","e","s">>, <<"h","e">>,
    <<"h","i","m">>, <<"h","i","s">>, <<"h","i","m","s","e","l","f">>, <<"s","h","e">>,
    <<"s","h","e","'","s">>, <<"h","e","r">>, <<"h","e","r","s">>, <<"h","e","r","s","e","l","f">>,
    <<"i","t">>, <<"i","t","'","s">>, <<"i","t","s">>, <<"i","t","s","e","l","f">>,
    <<"t","h","e","y">>, <<"t","h","e","m">>, <<"t","h","e","i","r">>, <<"t","h","e","i","r","s">>,
    <<"t","h","e","m","s","e","l","v","e","s">>, <<"w","h","a","t">>, <<"w","h","i","c","h">>,
    <<"w","h","o">>, <<"w","h","o","m">>, <<"t","h","i","s">>, <<"t","h","a","t">>,
    <<"t","h","a","t","'","l","l">>, <<"t","h","e","s","e">>, <<"t","h","o","s","e">>, <<"a","m">>,
    <<"i","s">>, <<"a","r","e">>, <<"w","a","s">>, <<"w","e","r","e">>, <<"b","e">>,
    <<"b","e","e","n">>, <<"b","e","i","n","g">>, <<"h","a","v","e">>, <<"h","a","s">>,
    <<"h","a","d">>, <<"h","a","v","i","n","g">>, <<"d","o">>, <<"d","o","e","s">>,
    <<"d","i","d">>, <<"d","o","i","n","g">>, <<"a">>, <<"a","n">>, <<"t","h","e">>,
    <<"a","n","d">>, <<"b","u","t">>, <<"i","f">>, <<"o","r">>, <<"b","e","c","a","u","s","e">>,
    <<"a","s">>, <<"u","n","t","i","l">>, <<"w","h","i","l","e">>, <<"o","f">>, <<"a","t">>,
    <<"b","y">>, <<"f","o","r">>, <<"w","i","t","h">>, <<"a","b","o","u","t">>,
    <<"a","g","a","i","n","s","t">>, <<"b","e","t","w","e","e","n">>, <<"i","n","t","o">>,
    <<"t","h","r","o","u","g","h">>, <<"d","u","r","i","n","g">>, <<"b","e","f","o","r","e">>,
    <<"a","f","t","e","r">>, <<"a","b","o","v","e">>, <<"b","e","l","o","w">>, <<"t","o">>,
    <<"f","r","o","m">>, <<"u","p">>, <<"d","o","w","n">>, <<"i","n">>, <<"o","u","t">>,
    <<"o","n">>, <<"o","f","f">>, <<"o","v","e","r">>, <<"u","n","d","e","r">>,
    <<"a","g","a","i","n">>, <<"f","u","r","t","h","e","r">>, <<"t","h","e","n">>,
    <<"o","n","c","e">>, <<"h","e","r","e">>, <<"t","h","e","r","e">>, <<"w","h","e","n">>,
    <<"w","h","e","r","e">>, <<"w","h","y">>, <<"h","o","w">>, <<"a","l","l">>, <<"a","n","y">>,
    <<"b","o","t","h">>, <<"e","a","c","h">>, <<"f","e","w">>, <<"m","o","r","e">>,
    <<"m","o","s","t">>, <<"o","t","h","e","r">>, <<"s","o","m","e">>, <<"s","u","c","h">>,
    <<"n","o">>, <<"n","o","r">>, <<"n","o","t">>, <<"o","n","l","y">>, <<"o","w","n">>,
    <<"s","a","m","e">>, <<"s","o">>, <<"t","h","a","n">>, <<"t","o","o">>, <<"v","e","r","y">>,
    <<"s">>, <<"t">>, <<"c","a","n">>, <<"w","i","l","l">>, <<"j","u","s","t">>, <<"d","o","n">>,
    <<"d","o","n","'","t">>, <<"s","h","o","u","l","d">>, <<"s","h","o","u","l","d","'","v","e">>,
    <<"n","o","w">>, <<"d">>, <<"l","l">>, <<"m">>, <<"o">>, <<"r","e">>, <<"v","e">>, <<"y">>,
    <<"a","i","n">>, <<"a","r","e","n">>, <<"a","r","e","n","'","t">>, <<"c","o","u","l","d","n">>,
    <<"c","o","u","l","d","n","'","t">>, <<"d","i","d","n">>, <<"d","i","d","n","'","t">>,
    <<"d","o","e","s","n">>, <<"d","o","e","s","n","'","t">>, <<"h","a","d","n">>,
    <<"h","a","d","n","'","t">>, <<"h","a","s","n">>, <<"h","a","s","n","'","t">>,
    <<"h","a","v","e","n">>, <<"h","a","v","e","n","'","t">>, <<"i","s","n">>,
    <<"i","s","n","'","t">>, <<"m","a">>, <<"m","i","g","h","t","n">>,
    <<"m","i","g","h","t","n","'","t">>, <<"m","u","s","t","n">>, <<"m","u","s","t","n","'","t">>,
    <<"n","e","e","d","n">>, <<"n","e","e","d","n","'","t">>, <<"s","h","a","n">>,
    <<"s","h","a","n","'","t">>, <<"s","h","o","u","l","d","n">>,
    <<"s","h","o","u","l","d","n","'","t">>, <<"w","a","s","n">>, <<"w","a","s","n","'","t">>,
    <<"w","e","r","e","n">>, <<"w","e","r","e","n","'","t">>, <<"w","o","n">>,
    <<"w","o","n","'","t">>, <<"w","o","u","l","d","n">>, <<"w","o","u","l","d","n","'","t">> }

keep_words ==
  { <<"i">>, <<"y","o","u">>, <<"h","e">>, <<"s","h","e">>, <<"i","t">>, <<"h","o","w">>,
    <<"a","r","e">>, <<"g","o","o","d">>, <<"m","o","r","n","i","n","g">>, <<"n","i","g","h","t">>,
    <<"t","o","d","a","y">> }

_build_word_mappings ==
    (<<"z","e","r","o">> :> "0") @@ (<<"o","n","e">> :> "1") @@ (<<"t","w","o">> :> "2") @@
    (<<"t","h","r","e","e">> :> "3") @@ (<<"f","o","u","r">> :> "4") @@
    (<<"f","i","v","e">> :> "5") @@ (<<"s","i","x">> :> "6") @@ (<<"s","e","v","e","n">> :> "7") @@
    (<<"e","i","g","h","t">> :> "8") @@ (<<"n","i","n","e">> :> "9") @@ (<<"0">> :> "0") @@
    (<<"1">> :> "1") @@ (<<"2">> :> "2") @@ (<<"3">> :> "3") @@ (<<"4">> :> "4") @@
    (<<"5">> :> "5") @@ (<<"6">> :> "6") @@ (<<"7">> :> "7") @@ (<<"8">> :> "8") @@
    (<<"9">> :> "9") @@ (<<"a">> :> "A") @@ (<<"b">> :> "B") @@ (<<"c">> :> "C") @@
    (<<"d">> :> "D") @@ (<<"e">> :> "E") @@ (<<"f">> :> "F") @@ (<<"g">> :> "G") @@
    (<<"h">> :> "H") @@ (<<"i">> :> "I") @@ (<<"j">> :> "J") @@ (<<"k">> :> "K") @@
    (<<"l">> :> "L") @@ (<<"m">> :> "M") @@ (<<"n">> :> "N") @@ (<<"o">> :> "O") @@
    (<<"p">> :> "P") @@ (<<"q">> :> "Q") @@ (<<"r">> :> "R") @@ (<<"s">> :> "S") @@
    (<<"t">> :> "T") @@ (<<"u">> :> "U") @@ (<<"v">> :> "V") @@ (<<"w">> :> "W") @@
    (<<"x">> :> "X") @@ (<<"y">> :> "Y") @@ (<<"z">> :> "Z") @@
    (<<"h","e","l","l","o">> :> "Hello") @@ (<<"h","i">> :> "Hello") @@
    (<<"h","e","y">> :> "Hello") @@ (<<"t","h","a","n","k">> :> "Thank you") @@
    (<<"t","h","a","n","k","s">> :> "Thank you") @@ (<<"h","a","p","p","y">> :> "Happy") @@
    (<<"h","a","p","p","i","n","e","s","s">> :> "Happy") @@
    (<<"h","a","p","p","i","l","y">> :> "Happy") @@ (<<"s","a","d">> :> "Sad") @@
    (<<"s","a","d","n","e","s","s">> :> "Sad") @@ (<<"s","a","d","l","y">> :> "Sad") @@
    (<<"b","e","a","u","t","i","f","u","l">> :> "Beautiful") @@
    (<<"b","e","a","u","t","y">> :> "Beautiful") @@ (<<"p","r","e","t","t","y">> :> "Beautiful") @@
    (<<"u","g","l","y">> :> "Ugly") @@ (<<"u","g","l","i","n","e","s","s">> :> "Ugly") @@
    (<<"a","l","r","i","g","h","t">> :> "Alright") @@ (<<"o","k","a","y">> :> "Alright") @@
    (<<"o","k">> :> "Alright") @@ (<<"f","i","n","e">> :> "Alright") @@
    (<<"p","l","e","a","s","e">> :> "Pleased") @@ (<<"p","l","e","a","s","e","d">> :> "Pleased") @@
    (<<"p","l","e","a","s","u","r","e">> :> "Pleased") @@
    (<<"a","n","i","m","a","l">> :> "Animal") @@ (<<"a","n","i","m","a","l","s">> :> "Animal") @@
    (<<"b","i","r","d">> :> "Bird") @@ (<<"b","i","r","d","s">> :> "Bird") @@
    (<<"c","a","t">> :> "Cat") @@ (<<"c","a","t","s">> :> "Cat") @@
    (<<"k","i","t","t","e","n">> :> "Cat") @@ (<<"k","i","t","t","y">> :> "Cat") @@
    (<<"d","o","g">> :> "Dog") @@ (<<"d","o","g","s">> :> "Dog") @@
    (<<"p","u","p","p","y">> :> "Dog") @@ (<<"p","u","p","p","i","e","s">> :> "Dog") @@
    (<<"c","o","w">> :> "Cow") @@ (<<"c","o","w","s">> :> "Cow") @@
    (<<"c","a","t","t","l","e">> :> "Cow") @@ (<<"h","o","r","s","e">> :> "Horse") @@
    (<<"h","o","r","s","e","s">> :> "Horse") @@ (<<"p","o","n","y">> :> "Horse") @@
    (<<"m","o","u","s","e">> :> "Mouse") @@ (<<"m","i","c","e">> :> "Mouse") @@
    (<<"r","a","t">> :> "Mouse") @@ (<<"f","i","s","h">> :> "Fish") @@
    (<<"f","i","s","h","e","s">> :> "Fish") @@ (<<"f","i","s","h","i","n","g">> :> "Fish") @@
    (<<"m","o","t","h","e","r">> :> "Mother") @@ (<<"m","o","m">> :> "Mother") @@
    (<<"m","u","m">> :> "Mother") @@ (<<"m","o","m","m","y">> :> "Mother") @@
    (<<"m","a","m","a">> :> "Mother") @@ (<<"f","a","t","h","e","r">> :> "Father") @@
    (<<"d","a","d">> :> "Father") @@ (<<"d","a","d","d","y">> :> "Father") @@
    (<<"p","a","p","a">> :> "Father") @@ (<<"d","a","u","g","h","t","e","r">> :> "Daughter") @@
    (<<"d","a","u","g","h","t","e","r","s">> :> "Daughter") @@ (<<"s","o","n">> :> "Son") @@
    (<<"s","o","n","s">> :> "Son") @@ (<<"p","a","r","e","n","t">> :> "Parent") @@
    (<<"p","a","r","e","n","t","s">> :> "Parent") @@ (<<"c","h","a","i","r">> :> "Chair") @@
    (<<"c","h","a","i","r","s">> :> "Chair") @@ (<<"s","e","a","t">> :> "Chair") @@
    (<<"t","a","b","l","e">> :> "Table") @@ (<<"t","a","b","l","e","s">> :> "Table") @@
    (<<"d","e","s","k">> :> "Table") @@ (<<"b","e","d">> :> "Bed") @@
    (<<"b","e","d","s">> :> "Bed") @@ (<<"s","l","e","e","p","i","n","g">> :> "Bed") @@
    (<<"b","e","d","r","o","o","m">> :> "Bedroom") @@
    (<<"b","e","d","r","o","o","m","s">> :> "Bedroom") @@ (<<"r","o","o","m">> :> "Bedroom") @@
    (<<"d","o","o","r">> :> "Door") @@ (<<"d","o","o","r","s">> :> "Door") @@
    (<<"d","o","o","r","w","a","y">> :> "Door") @@ (<<"w","i","n","d","o","w">> :> "Window") @@
    (<<"w","i","n","d","o","w","s">> :> "Window") @@ (<<"b","l","a","c","k">> :> "Black") @@
    (<<"d","a","r","k">> :> "Black") @@ (<<"w","h","i","t","e">> :> "White") @@
    (<<"l","i","g","h","t">> :> "White") @@ (<<"o","r","a","n","g","e">> :> "Orange") @@
    (<<"p","i","n","k">> :> "Pink") @@ (<<"g","r","e","y">> :> "Grey") @@
    (<<"g","r","a","y">> :> "Grey") @@ (<<"c","o","l","o","u","r">> :> "Colour") @@
    (<<"c","o","l","o","r">> :> "Colour") @@ (<<"c","o","l","o","r","s">> :> "Colour") @@
    (<<"c","o","l","o","u","r","s">> :> "Colour") @@ (<<"m","o","n","d","a","y">> :> "Monday") @@
    (<<"m","o","n">> :> "Monday") @@ (<<"t","u","e","s","d","a","y">> :> "Tuesday") @@
    (<<"t","u","e">> :> "Tuesday") @@ (<<"t","u","e","s">> :> "Tuesday") @@
    (<<"w","e","d","n","e","s","d","a","y">> :> "Wednesday") @@ (<<"w","e","d">> :> "Wednesday") @@
    (<<"t","h","u","r","s","d","a","y">> :> "Thursday") @@ (<<"t","h","u">> :> "Thursday") @@
    (<<"t","h","u","r","s">> :> "Thursday") @@ (<<"f","r","i","d","a","y">> :> "Friday") @@
    (<<"f","r","i">> :> "Friday") @@ (<<"s","a","t","u","r","d","a","y">> :> "Saturday") @@
    (<<"s","a","t">> :> "Saturday") @@ (<<"s","u","n","d","a","y">> :> "Sunday") @@
    (<<"s","u","n">> :> "Sunday") @@ (<<"t","o","d","a","y">> :> "Today") @@
    (<<"m","e">> :> "I") @@ (<<"m","y">> :> "I") @@ (<<"m","y","s","e","l","f">> :> "I") @@
    (<<"y","o","u">> :> "You") @@ (<<"y","o","u","r">> :> "You") @@
    (<<"y","o","u","r","s">> :> "You") @@ (<<"y","o","u","r","s","e","l","f">> :> "You") @@
    (<<"h","e">> :> "He") @@ (<<"h","i","m">> :> "He") @@ (<<"h","i","s">> :> "He") @@
    (<<"h","i","m","s","e","l","f">> :> "He") @@ (<<"s","h","e">> :> "She") @@
    (<<"h","e","r">> :> "She") @@ (<<"h","e","r","s">> :> "She") @@
    (<<"h","e","r","s","e","l","f">> :> "She") @@ (<<"i","t">> :> "It") @@
    (<<"i","t","s">> :> "It") @@ (<<"i","t","s","e","l","f">> :> "It") @@
    (<<"b","l","i","n","d">> :> "Blind") @@ (<<"b","l","i","n","d","n","e","s","s">> :> "Blind") @@
    (<<"d","e","a","f">> :> "Deaf") @@ (<<"d","e","a","f","n","e","s","s">> :> "Deaf") @@
    (<<"d","r","e","a","m">> :> "Dream") @@ (<<"d","r","e","a","m","s">> :> "Dream") @@
    (<<"d","r","e","a","m","i","n","g">> :> "Dream") @@ (<<"d","r","e","a","m","t">> :> "Dream") @@
    (<<"l","o","u","d">> :> "Loud") @@ (<<"l","o","u","d","l","y">> :> "Loud") @@
    (<<"l","o","u","d","n","e","s","s">> :> "Loud") @@ (<<"n","o","i","s","y">> :> "Loud") @@
    (<<"q","u","i","e","t">> :> "Quiet") @@ (<<"q","u","i","e","t","l","y">> :> "Quiet") @@
    (<<"s","i","l","e","n","c","e">> :> "Quiet") @@ (<<"s","i","l","e","n","t">> :> "Quiet") @@
    (<<"m","o","r","n","i","n","g">> :> "Good Morning") @@
    (<<"n","i","g","h","t">> :> "Good night") @@
    (<<"g","o","o","d","n","i","g","h","t">> :> "Good night")

\* mutant: __init__ forgets to take keep_words out of the stop words
stop_words_with_keep(nltk) ==
  IF nltk THEN nltk_stopwords_english ELSE _get_basic_stopwords

\* self.stop_words after __init__ : the underlying list minus keep_words
stop_words(nltk) ==
  (IF nltk THEN nltk_stopwords_english ELSE _get_basic_stopwords) \ keep_words

\* self.phrases, in dict order: <<key, sign>>
phrases ==
  << << <<"h","o","w"," ","a","r","e"," ","y","o","u">>, "How are you" >>,
     << <<"g","o","o","d"," ","m","o","r","n","i","n","g">>, "Good Morning" >>,
     << <<"g","o","o","d"," ","n","i","g","h","t">>, "Good night" >>,
     << <<"t","h","a","n","k"," ","y","o","u">>, "Thank you" >> >>

\* mutant: one mapping names a sign that is not a class label
word_to_sign_typo ==
  [_build_word_mappings EXCEPT ![<<"c","a","t">>] = "cat"]

word_to_sign == _build_word_mappings

\* WordNetLemmatizer.lemmatize(token, pos) of the external NLTK library, on
\* the words the input texts contain: the listed forms change, every other
\* token has no other base form.
wordnet_lemma(token, pos) ==
  IF pos = "v" /\ token = <<"a","r","e">> THEN <<"b","e">>
  ELSE token

\* ------------------------------------------------------------------------
\* NLPProcessor: the stages of the pipeline
\* ------------------------------------------------------------------------
preprocess_text(text) ==
  LET t1 == str_strip(str_lower(text))
      t2 == str_join(<<" ">>, str_split(t1))
      t3 == re_sub_punct(t2)
  IN  str_join(<<" ">>, str_split(t3))

\* sorted(keys, key=len, reverse=True): stable, longest key first
RECURSIVE sorted_by_len_desc(_)
sorted_by_len_desc(ps) ==
  IF ps = <<>> THEN <<>>
  ELSE LET best == CHOOSE i \in DOMAIN ps :
                     /\ \A j \in DOMAIN ps : Len(ps[j][1]) <= Len(ps[i][1])
                     /\ \A j \in 1..(i - 1) : Len(ps[j][1]) < Len(ps[i][1])
       IN  <<ps[best]>> \o
           sorted_by_len_desc(SubSeq(ps, 1, best - 1) \o SubSeq(ps, best + 1, Len(ps)))

\* mutant: a detected phrase is recorded but left in the text
detect_step_keep(acc, phrase) ==
  IF str_contains(phrase[1], acc.remaining)
  THEN [detected |-> Append(acc.detected, phrase[2]), remaining |-> acc.remaining]
  ELSE acc

\* one iteration of the loop of detect_phrases
detect_step(acc, phrase) ==
  IF str_contains(phrase[1], acc.remaining)
  THEN [detected  |-> Append(acc.detected, phrase[2]),
        remaining |-> str_replace(acc.remaining, phrase[1], <<" ">>)]
  ELSE acc

RECURSIVE detect_loop(_, _)
detect_loop(acc, ps) ==
  IF ps = <<>> THEN acc ELSE detect_loop(detect_step(acc, Head(ps)), Tail(ps))

detect_phrases(text) ==
  LET r == detect_loop([detected |-> <<>>, remaining |-> str_lower(text)],
                       sorted_by_len_desc(phrases))
  IN  [detected |-> r.detected, remaining |-> str_join(<<" ">>, str_split(r.remaining))]

\* text.split(); nltk's word_tokenize agrees with it on the blank-separated
\* words of letters, digits and underscores that reach it here
tokenize(text) == str_split(text)

lemmatize_token(token) ==
  LET n == wordnet_lemma(token, "n")
      v == IF n = token THEN wordnet_lemma(token, "v") ELSE n
  IN  IF v = token THEN wordnet_lemma(token, "a") ELSE v

lemmatize(nltk, tokens) ==
  IF ~nltk THEN tokens ELSE [i \in DOMAIN tokens |-> lemmatize_token(tokens[i])]

RECURSIVE remove_stopwords(_, _)
remove_stopwords(nltk, tokens) ==
  IF tokens = <<>> THEN <<>>
  ELSE IF Head(tokens) \notin stop_words(nltk) \/ Head(tokens) \in DOMAIN word_to_sign
       THEN <<Head(tokens)>> \o remove_stopwords(nltk, Tail(tokens))
       ELSE remove_stopwords(nltk, Tail(tokens))

\* mutant: no sign may repeat
_should_repeat_none(sign) == FALSE

_should_repeat(sign) == sign \in {"I", "You", "He", "She", "It"}

\* the inner loop of map_to_signs: for char in token.upper()
RECURSIVE fingerspell(_)
fingerspell(chars) ==
  IF chars = <<>> THEN <<>>
  ELSE IF InSeq(Head(chars), class_labels)
       THEN <<Head(chars)>> \o fingerspell(Tail(chars))
       ELSE fingerspell(Tail(chars))

\* mutant: tokens of length 2 are fingerspelled too
map_step_len2(signs, token) ==
  IF token \in DOMAIN word_to_sign
  THEN LET sign == word_to_sign[token]
       IN  IF ~InSeq(sign, signs) \/ _should_repeat(sign) THEN Append(signs, sign) ELSE signs
  ELSE IF Len(token) >= 2 THEN signs \o fingerspell(str_upper(token))
  ELSE signs

\* one iteration of the outer loop of map_to_signs
map_step(signs, token) ==
  IF token \in DOMAIN word_to_sign
  THEN LET sign == word_to_sign[token]
       IN  IF ~InSeq(sign, signs) \/ _should_repeat(sign) THEN Append(signs, sign) ELSE signs
  ELSE IF Len(token) > 2 THEN signs \o fingerspell(str_upper(token))
  ELSE signs

RECURSIVE map_loop(_, _)
map_loop(signs, tokens) ==
  IF tokens = <<>> THEN signs ELSE map_loop(map_step(signs, Head(tokens)), Tail(tokens))

map_to_signs(tokens) == map_loop(<<>>, tokens)

time_expressions ==
  {"Today", "Monday", "Tuesday", "Wednesday", "Thursday", "Friday", "Saturday", "Sunday"}

\* the reordering loop at the end of process
RECURSIVE reorder_loop(_, _, _)
reorder_loop(time_signs, other_signs, rest) ==
  IF rest = <<>> THEN time_signs \o other_signs
  ELSE IF Head(rest) \in time_expressions
       THEN reorder_loop(Append(time_signs, Head(rest)), other_signs, Tail(rest))
       ELSE reorder_loop(time_signs, Append(other_signs, Head(rest)), Tail(rest))

combine_signs(phrase_signs, word_signs) == phrase_signs \o word_signs

\* mutant: the combined list is returned without the partition
reorder_unpartitioned(phrase_signs, word_signs) == combine_signs(phrase_signs, word_signs)

reorder(phrase_signs, word_signs) ==
  reorder_loop(<<>>, <<>>, combine_signs(phrase_signs, word_signs))

\* ISLMapper.class_labels, class_labels_set and the validity filter of map_to_isl
mapper_class_labels ==
  << "0", "1", "2", "3", "4", "5", "6", "7", "8", "9", "A", "Alright", "Animal", "B", "Beautiful",
     "Bed", "Bedroom", "Bird", "Black", "Blind", "C", "Cat", "Chair", "Colour", "Cow", "D",
     "Daughter", "Deaf", "Dog", "Door", "Dream", "E", "F", "Father", "Fish", "Friday", "G",
     "Good Morning", "Good night", "Grey", "H", "Happy", "He", "Hello", "Horse", "How are you", "I",
     "It", "J", "K", "L", "Loud", "M", "Monday", "Mother", "Mouse", "N", "O", "Orange", "P",
     "Parent", "Pink", "Pleased", "Q", "Quiet", "R", "S", "Sad", "Saturday", "She", "Son", "Sunday",
     "T", "Table", "Thank you", "Thursday", "Today", "Tuesday", "U", "Ugly", "V", "W", "Wednesday",
     "White", "Window", "X", "Y", "You", "Z" >>

class_labels_set == Range(mapper_class_labels)

RECURSIVE valid_filter(_)
valid_filter(signs) ==
  IF signs = <<>> THEN <<>>
  ELSE IF Head(signs) \in class_labels_set
       THEN <<Head(signs)>> \o valid_filter(Tail(signs))
       ELSE valid_filter(Tail(signs))

\* ------------------------------------------------------------------------
\* Input texts: up to MaxWords pieces joined by single blanks
\* ------------------------------------------------------------------------
Words ==
  << <<"H","e","l","l","o",",">>, <<"t","h","a","n","k"," ","y","o","u">>,
     <<"g","o","o","d"," ","m","o","r","n","i","n","g",",">>,
     <<"h","o","w"," ","a","r","e"," ","y","o","u">>, <<"t","o","d","a","y">>,
     <<"m","o","n","d","a","y">>, <<"c","a","t">>, <<"y","o","u">>, <<"x","y","z">>,
     <<"x","_","z">>, <<"t","h","e">>, <<"a","r","e">>, <<"w","e">> >>

InputTexts ==
  UNION { { str_join(<<" ">>, [i \in 1..n |-> Words[f[i]]]) : f \in [1..n -> DOMAIN Words] } :
          n \in 0..MaxWords }


\* ------------------------------------------------------------------------
\* State
\* ------------------------------------------------------------------------
VARIABLES
  NLTK_AVAILABLE,   \* module global of nlp_processor.py: the import of nltk succeeded
  text,             \* argument of process / map_to_isl
  result,           \* the result dict of process
  remaining_text,   \* local of process: the text left by detect_phrases
  word_signs,       \* local of process: the output of map_to_signs
  valid_signs,      \* return value of map_to_isl
  pc,               \* position inside process / map_to_isl
  animation_data,   \* the dict built by generate_animation_sequence
  current_time,     \* local of generate_animation_sequence, in ms
  idx,              \* loop index i of generate_animation_sequence (from 0)
  gpc,              \* position inside generate_animation_sequence
  signs,            \* ISLDatabase.signs of the shared instance isl_database
  generator,        \* the tables of the shared instance animation_generator
  query,            \* arguments of a call of get_sign / interpolate_keyframes
  answer,           \* the value that call returns
  rpc,              \* which repository call has returned
  calls             \* the locals of each request thread inside generate_animation_sequence

nlp_vars == <<NLTK_AVAILABLE, text, result, remaining_text, word_signs, valid_signs, pc>>
gen_vars == <<animation_data, current_time, idx, gpc>>
shared_vars == <<signs, generator>>
repo_vars == <<query, answer, rpc>>

vars == <<nlp_vars, gen_vars, shared_vars, repo_vars, calls>>

\* ------------------------------------------------------------------------
\* Numbers.  A coordinate, an eyebrow or posture amount is an integer number
\* of 1/CoordUnit (every stored coordinate is a whole number of them); a
\* progress, a sine and a cosine are integer numbers of 1/ProgressUnit; an
\* angle is an integer number of pi/ProgressUnit.  Quotients round down.
\* ------------------------------------------------------------------------
CoordUnit == 30000

ProgressUnit == 1000

\* the float literal h/100 of the source
Hundredths(h) == h * (CoordUnit \div 100)

\* amount * s for a progress, sine or cosine s
scaled(amount, s) == (amount * s) \div ProgressUnit

Abs(x) == IF x >= 0 THEN x ELSE -x

RECURSIVE SumSeq(_)
SumSeq(s) == IF s = <<>> THEN 0 ELSE Head(s) + SumSeq(Tail(s))

\* math.sin on the first quarter turn
sin_table ==
  << 0, 3, 6, 9, 13, 16, 19, 22, 25, 28, 31, 35, 38, 41, 44, 47, 50, 53, 57, 60,
     63, 66, 69, 72, 75, 78, 82, 85, 88, 91, 94, 97, 100, 103, 107, 110, 113, 116, 119, 122,
     125, 128, 132, 135, 138, 141, 144, 147, 150, 153, 156, 160, 163, 166, 169, 172, 175, 178, 181, 184,
     187, 190, 194, 197, 200, 203, 206, 209, 212, 215, 218, 221, 224, 227, 230, 233, 236, 240, 243, 246,
     249, 252, 255, 258, 261, 264, 267, 270, 273, 276, 279, 282, 285, 288, 291, 294, 297, 300, 303, 306,
     309, 312, 315, 318, 321, 324, 327, 330, 333, 336, 339, 342, 345, 348, 351, 353, 356, 359, 362, 365,
     368, 371, 374, 377, 380, 383, 386, 388, 391, 394, 397, 400, 403, 406, 409, 412, 414, 417, 420, 423,
     426, 429, 431, 434, 437, 440, 443, 446, 448, 451, 454, 457, 460, 462, 465, 468, 471, 473, 476, 479,
     482, 485, 487, 490, 493, 495, 498, 501, 504, 506, 509, 512, 514, 517, 520, 522, 525, 528, 531, 533,
     536, 538, 541, 544, 546, 549, 552, 554, 557, 559, 562, 565, 567, 570, 572, 575, 578, 580, 583, 585,
     588, 590, 593, 595, 598, 600, 603, 605, 608, 610, 613, 615, 618, 620, 623, 625, 628, 630, 633, 635,
     637, 640, 642, 645, 647, 649, 652, 654, 657, 659, 661, 664, 666, 668, 671, 673, 675, 678, 680, 682,
     685, 687, 689, 691, 694, 696, 698, 700, 703, 705, 707, 709, 712, 714, 716, 718, 720, 722, 725, 727,
     729, 731, 733, 735, 738, 740, 742, 744, 746, 748, 750, 752, 754, 756, 758, 760, 762, 764, 766, 769,
     771, 773, 775, 776, 778, 780, 782, 784, 786, 788, 790, 792, 794, 796, 798, 800, 802, 803, 805, 807,
     809, 811, 813, 815, 816, 818, 820, 822, 824, 825, 827, 829, 831, 832, 834, 836, 838, 839, 841, 843,
     844, 846, 848, 849, 851, 853, 854, 856, 858, 859, 861, 862, 864, 866, 867, 869, 870, 872, 873, 875,
     876, 878, 879, 881, 882, 884, 885, 887, 888, 890, 891, 892, 894, 895, 897, 898, 899, 901, 902, 903,
     905, 906, 907, 909, 910, 911, 913, 914, 915, 917, 918, 919, 920, 921, 923, 924, 925, 926, 927, 929,
     930, 931, 932, 933, 934, 935, 937, 938, 939, 940, 941, 942, 943, 944, 945, 946, 947, 948, 949, 950,
     951, 952, 953, 954, 955, 956, 957, 958, 959, 959, 960, 961, 962, 963, 964, 965, 965, 966, 967, 968,
     969, 969, 970, 971, 972, 972, 973, 974, 975, 975, 976, 977, 977, 978, 979, 979, 980, 980, 981, 982,
     982, 983, 983, 984, 985, 985, 986, 986, 987, 987, 988, 988, 989, 989, 990, 990, 990, 991, 991, 992,
     992, 993, 993, 993, 994, 994, 994, 995, 995, 995, 996, 996, 996, 996, 997, 997, 997, 997, 998, 998,
     998, 998, 998, 999, 999, 999, 999, 999, 999, 999, 1000, 1000, 1000, 1000, 1000, 1000, 1000, 1000, 1000, 1000,
     1000 >>

math_sin(angle) ==
  LET r == angle % (2 * ProgressUnit)
      h == r % ProgressUnit
      v == IF 2 * h <= ProgressUnit THEN sin_table[h + 1] ELSE sin_table[ProgressUnit - h + 1]
  IN  IF r < ProgressUnit THEN v ELSE -v

math_cos(angle) == math_sin(angle + ProgressUnit \div 2)

\* Python's None; no hand pose of the program is an empty list
None == <<>>

\* ------------------------------------------------------------------------
\* ISLDatabase: the sign repository
\* ------------------------------------------------------------------------
db_class_labels ==
  << "0", "1", "2", "3", "4", "5", "6", "7", "8", "9", "A", "Alright", "Animal", "B", "Beautiful",
     "Bed", "Bedroom", "Bird", "Black", "Blind", "C", "Cat", "Chair", "Colour", "Cow", "D",
     "Daughter", "Deaf", "Dog", "Door", "Dream", "E", "F", "Father", "Fish", "Friday", "G",
     "Good Morning", "Good night", "Grey", "H", "Happy", "He", "Hello", "Horse", "How are you",
     "I", "It", "J", "K", "L", "Loud", "M", "Monday", "Mother", "Mouse", "N", "O", "Orange", "P",
     "Parent", "Pink", "Pleased", "Q", "Quiet", "R", "S", "Sad", "Saturday", "She", "Son",
     "Sunday", "T", "Table", "Thank you", "Thursday", "Today", "Tuesday", "U", "Ugly", "V", "W",
     "Wednesday", "White", "Window", "X", "Y", "You", "Z" >>

\* mutant: the little-finger tip is left out of every pose
Landmarks_short(triples) ==
  [i \in 1..(Len(triples) - 1) |->
     [x |-> triples[i][1], y |-> triples[i][2], z |-> triples[i][3]]]

\* a list of landmark dicts from its <<x, y, z>> triples
Landmarks(triples) ==
  [i \in DOMAIN triples |-> [x |-> triples[i][1], y |-> triples[i][2], z |-> triples[i][3]]]

_create_base_hand(x_offset, y_offset) ==
  Landmarks(
    << <<x_offset, y_offset, 0>>,
       <<x_offset - Hundredths(8), y_offset - Hundredths(2), 0>>,
       <<x_offset - Hundredths(12), y_offset - Hundredths(5), 0>>,
       <<x_offset - Hundredths(14), y_offset - Hundredths(8), 0>>,
       <<x_offset - Hundredths(16), y_offset - Hundredths(10), 0>>,
       <<x_offset - Hundredths(4), y_offset - Hundredths(8), 0>>,
       <<x_offset - Hundredths(4), y_offset - Hundredths(14), 0>>,
       <<x_offset - Hundredths(4), y_offset - Hundredths(18), 0>>,
       <<x_offset - Hundredths(4), y_offset - Hundredths(22), 0>>,
       <<x_offset, y_offset - Hundredths(8), 0>>,
       <<x_offset, y_offset - Hundredths(15), 0>>,
       <<x_offset, y_offset - Hundredths(20), 0>>,
       <<x_offset, y_offset - Hundredths(24), 0>>,
       <<x_offset + Hundredths(4), y_offset - Hundredths(8), 0>>,
       <<x_offset + Hundredths(4), y_offset - Hundredths(14), 0>>,
       <<x_offset + Hundredths(4), y_offset - Hundredths(18), 0>>,
       <<x_offset + Hundredths(4), y_offset - Hundredths(21), 0>>,
       <<x_offset + Hundredths(8), y_offset - Hundredths(8), 0>>,
       <<x_offset + Hundredths(8), y_offset - Hundredths(12), 0>>,
       <<x_offset + Hundredths(8), y_offset - Hundredths(15), 0>>,
       <<x_offset + Hundredths(8), y_offset - Hundredths(18), 0>> >>)

\* sign data with a single keyframe
_create_sign_data(name, landmarks, sign_type, facial, motion, body_region, two_hands) ==
  [name |-> name, type |-> sign_type, facial_expression |-> facial, motion_type |-> motion,
   body_region |-> body_region, two_hands |-> two_hands,
   keyframes |-> << [frame |-> 0, right_hand |-> Landmarks(landmarks),
                     left_hand |-> IF two_hands THEN Landmarks(landmarks) ELSE None] >>]

\* sign with animation between two keyframes
_create_animated_sign(name, start_hand, end_hand, motion, facial, body_region, two_hands) ==
  [name |-> name, type |-> "animated", facial_expression |-> facial, motion_type |-> motion,
   body_region |-> body_region, two_hands |-> two_hands,
   keyframes |-> << [frame |-> 0, right_hand |-> Landmarks(start_hand),
                     left_hand |-> IF two_hands THEN Landmarks(start_hand) ELSE None],
                    [frame |-> 1, right_hand |-> Landmarks(end_hand),
                     left_hand |-> IF two_hands THEN Landmarks(end_hand) ELSE None] >>]

\* the dict built by _build_sign_database: for each sign the call of
\* _create_sign_data / _create_animated_sign its _create_* method ends in
_build_sign_database ==
       ("0" :> _create_sign_data("0",
        << <<15000,15000,0>>, <<13200,14400,600>>, <<12600,13800,900>>, <<13200,13200,1200>>, <<15000,13800,1500>>, <<13800,12600,0>>, <<13800,12000,1200>>,
           <<14400,12600,1800>>, <<14400,13800,1500>>, <<15000,12600,0>>, <<15000,12000,1200>>, <<15600,12600,1800>>, <<15600,13800,1500>>, <<16200,12600,0>>,
           <<16200,12000,1200>>, <<16500,12600,1800>>, <<16500,13800,1500>>, <<17400,12600,0>>, <<17400,12300,900>>, <<17400,12900,1500>>, <<17400,13800,1200>> >>,
        "number", "neutral", "static", "neutral", FALSE))
    @@ ("1" :> _create_sign_data("1",
        << <<15000,15000,0>>, <<13200,14400,600>>, <<12600,13800,900>>, <<13200,13200,1200>>, <<13800,13200,1500>>, <<13800,12000,0>>, <<13800,10200,0>>,
           <<14400,9600,0>>, <<14400,9600,0>>, <<15000,12600,0>>, <<15000,12000,1200>>, <<15600,12600,1800>>, <<15600,13800,1500>>, <<16200,12600,0>>,
           <<16200,12000,1200>>, <<16500,12600,1800>>, <<16500,13800,1500>>, <<17400,12600,0>>, <<17400,12300,900>>, <<17400,12900,1500>>, <<17400,13800,1200>> >>,
        "number", "neutral", "static", "neutral", FALSE))
    @@ ("2" :> _create_sign_data("2",
        << <<15000,15000,0>>, <<13200,14400,600>>, <<12600,13800,900>>, <<13200,13200,1200>>, <<13800,13200,1500>>, <<13200,11400,0>>, <<13200,9600,0>>,
           <<13800,9000,0>>, <<13800,9000,0>>, <<15600,11400,0>>, <<15600,9600,0>>, <<16200,9000,0>>, <<16200,9000,0>>, <<16200,12600,0>>,
           <<16200,12000,1200>>, <<16500,12600,1800>>, <<16500,13800,1500>>, <<17400,12600,0>>, <<17400,12300,900>>, <<17400,12900,1500>>, <<17400,13800,1200>> >>,
        "number", "neutral", "static", "neutral", FALSE))
    @@ ("3" :> _create_sign_data("3",
        << <<15000,15000,0>>, <<13200,14400,600>>, <<12600,13800,900>>, <<13200,13200,1200>>, <<12000,10800,1500>>, <<13800,11400,0>>, <<13800,9600,0>>,
           <<14400,9000,0>>, <<14400,9000,0>>, <<15000,11400,0>>, <<15000,9600,0>>, <<15600,9000,0>>, <<15600,9000,0>>, <<16200,12600,0>>,
           <<16200,12000,1200>>, <<16500,12600,1800>>, <<16500,13800,1500>>, <<17400,12600,0>>, <<17400,12300,900>>, <<17400,12900,1500>>, <<17400,13800,1200>> >>,
        "number", "neutral", "static", "neutral", FALSE))
    @@ ("4" :> _create_sign_data("4",
        << <<15000,15000,0>>, <<12600,14400,0>>, <<11400,13500,0>>, <<10800,12600,0>>, <<14400,13200,1200>>, <<13800,12600,0>>, <<13800,10800,0>>,
           <<13800,9600,0>>, <<13800,8400,0>>, <<15000,12600,0>>, <<15000,10500,0>>, <<15000,9000,0>>, <<15000,7800,0>>, <<16200,12600,0>>,
           <<16200,10800,0>>, <<16200,9600,0>>, <<16200,8700,0>>, <<17400,12600,0>>, <<17400,11400,0>>, <<17400,10500,0>>, <<17400,9600,0>> >>,
        "number", "neutral", "static", "neutral", FALSE))
    @@ ("5" :> _create_sign_data("5",
        << <<15000,15000,0>>, <<12600,14400,0>>, <<11400,13500,0>>, <<10800,12600,0>>, <<10200,12000,0>>, <<13800,12600,0>>, <<13800,10800,0>>,
           <<13800,9600,0>>, <<13800,8400,0>>, <<15000,12600,0>>, <<15000,10500,0>>, <<15000,9000,0>>, <<15000,7800,0>>, <<16200,12600,0>>,
           <<16200,10800,0>>, <<16200,9600,0>>, <<16200,8700,0>>, <<17400,12600,0>>, <<17400,11400,0>>, <<17400,10500,0>>, <<17400,9600,0>> >>,
        "number", "neutral", "static", "neutral", FALSE))
    @@ ("6" :> _create_sign_data("6",
        << <<15000,15000,0>>, <<13200,13800,0>>, <<12600,12000,0>>, <<12300,10200,0>>, <<12300,8400,0>>, <<14100,13200,0>>, <<14100,13800,1800>>,
           <<14700,14400,2400>>, <<15000,15600,1800>>, <<15300,13200,0>>, <<15300,13800,1800>>, <<15900,14400,2400>>, <<16200,15600,1800>>, <<16500,13200,0>>,
           <<16500,13800,1800>>, <<17100,14400,2400>>, <<17400,15600,1800>>, <<17700,13200,0>>, <<17700,13800,1800>>, <<18300,14400,2400>>, <<18600,15600,1800>> >>,
        "number", "neutral", "static", "neutral", FALSE))
    @@ ("7" :> _create_sign_data("7",
        << <<15000,15000,0>>, <<13500,14100,0>>, <<12900,12600,0>>, <<12600,11100,0>>, <<12600,9600,0>>, <<14400,13200,0>>, <<12000,13200,0>>,
           <<9600,13200,0>>, <<7200,13200,0>>, <<15300,13800,0>>, <<12900,14400,0>>, <<10500,14700,0>>, <<8100,15000,0>>, <<16500,13500,0>>,
           <<16500,14100,1500>>, <<16800,15000,2100>>, <<17100,15900,1500>>, <<17700,13500,0>>, <<17700,14100,1500>>, <<18000,15000,2100>>, <<18300,15900,1500>> >>,
        "number", "neutral", "static", "neutral", FALSE))
    @@ ("8" :> _create_sign_data("8",
        << <<15000,15000,0>>, <<13800,14400,600>>, <<14400,13800,1200>>, <<15600,13500,1500>>, <<16800,13200,1200>>, <<13800,12600,0>>, <<13500,10800,0>>,
           <<13200,9000,0>>, <<13200,7200,0>>, <<15000,12600,0>>, <<15000,10500,0>>, <<15000,8400,0>>, <<15000,6600,0>>, <<16200,12600,0>>,
           <<16500,10800,0>>, <<16800,9000,0>>, <<16800,7500,0>>, <<17400,13200,0>>, <<17700,13800,900>>, <<17400,13500,1500>>, <<16800,13200,1200>> >>,
        "number", "neutral", "static", "neutral", FALSE))
    @@ ("9" :> _create_sign_data("9",
        << <<15000,15000,0>>, <<13500,14400,900>>, <<13200,13800,1500>>, <<13800,13500,1800>>, <<14400,13800,1800>>, <<14100,13200,0>>, <<14100,13800,1800>>,
           <<14700,14400,2400>>, <<15000,15600,1800>>, <<15300,13200,0>>, <<15300,13800,1800>>, <<15900,14400,2400>>, <<16200,15600,1800>>, <<16500,13200,0>>,
           <<16500,13800,1800>>, <<17100,14400,2400>>, <<17400,15600,1800>>, <<17700,13200,0>>, <<18000,11400,0>>, <<18300,9900,0>>, <<18600,8400,0>> >>,
        "number", "neutral", "static", "neutral", FALSE))
    @@ ("A" :> _create_sign_data("A",
        << <<15000,15000,0>>, <<13200,14400,600>>, <<12600,13800,900>>, <<13200,13200,1200>>, <<12600,12600,1500>>, <<13800,12600,0>>, <<13800,12000,1200>>,
           <<14400,12600,1800>>, <<14400,13800,1500>>, <<15000,12600,0>>, <<15000,12000,1200>>, <<15600,12600,1800>>, <<15600,13800,1500>>, <<16200,12600,0>>,
           <<16200,12000,1200>>, <<16500,12600,1800>>, <<16500,13800,1500>>, <<17400,12600,0>>, <<17400,12300,900>>, <<17400,12900,1500>>, <<17400,13800,1200>> >>,
        "letter", "neutral", "static", "neutral", FALSE))
    @@ ("B" :> _create_sign_data("B",
        << <<15000,15000,0>>, <<12600,14400,0>>, <<11400,13500,0>>, <<10800,12600,0>>, <<15600,13500,1200>>, <<13800,12600,0>>, <<13800,10800,0>>,
           <<13800,9600,0>>, <<13800,8400,0>>, <<15000,12600,0>>, <<15000,10500,0>>, <<15000,9000,0>>, <<15000,7800,0>>, <<16200,12600,0>>,
           <<16200,10800,0>>, <<16200,9600,0>>, <<16200,8700,0>>, <<17400,12600,0>>, <<17400,11400,0>>, <<17400,10500,0>>, <<17400,9600,0>> >>,
        "letter", "neutral", "static", "neutral", FALSE))
    @@ ("C" :> _create_sign_data("C",
        << <<15000,15000,0>>, <<12600,14400,0>>, <<11400,13500,0>>, <<10800,12600,0>>, <<12600,12600,0>>, <<13200,12600,900>>, <<13200,10800,900>>,
           <<13200,9600,900>>, <<13200,8400,900>>, <<14400,12600,900>>, <<14400,10500,900>>, <<14400,9000,900>>, <<14400,7800,900>>, <<15600,12600,900>>,
           <<15600,10800,900>>, <<15600,9600,900>>, <<15600,8700,900>>, <<16800,12600,900>>, <<16800,11400,900>>, <<16800,10500,900>>, <<16800,9600,900>> >>,
        "letter", "neutral", "static", "neutral", FALSE))
    @@ ("D" :> _create_sign_data("D",
        << <<15000,15000,0>>, <<13200,14400,600>>, <<12600,13800,900>>, <<13200,13200,1200>>, <<13800,12600,900>>, <<13800,12000,0>>, <<13800,10200,0>>,
           <<14400,9600,0>>, <<14400,9600,0>>, <<15000,12600,0>>, <<15000,12000,1200>>, <<15600,12600,1800>>, <<15600,12600,900>>, <<16200,12600,0>>,
           <<16200,12000,1200>>, <<16500,12600,1800>>, <<16500,12600,900>>, <<17400,12600,0>>, <<17400,12300,900>>, <<17400,12900,1500>>, <<17400,12600,900>> >>,
        "letter", "neutral", "static", "neutral", FALSE))
    @@ ("E" :> _create_sign_data("E",
        << <<15000,15000,0>>, <<13200,14400,600>>, <<12600,13800,900>>, <<13200,13200,1200>>, <<13800,12600,1200>>, <<13800,12600,0>>, <<13800,12000,1200>>,
           <<14400,12600,1800>>, <<14400,13800,1500>>, <<15000,12600,0>>, <<15000,12000,1200>>, <<15600,12600,1800>>, <<15600,13800,1500>>, <<16200,12600,0>>,
           <<16200,12000,1200>>, <<16500,12600,1800>>, <<16500,13800,1500>>, <<17400,12600,0>>, <<17400,12300,900>>, <<17400,12900,1500>>, <<17400,13800,1200>> >>,
        "letter", "neutral", "static", "neutral", FALSE))
    @@ ("F" :> _create_sign_data("F",
        << <<15000,15000,0>>, <<12600,14400,0>>, <<11400,13500,0>>, <<10800,12600,0>>, <<13800,8400,600>>, <<13800,12600,0>>, <<13800,10800,0>>,
           <<13800,9600,0>>, <<13800,8400,0>>, <<15000,12600,0>>, <<15000,10500,0>>, <<15000,9000,0>>, <<15000,7800,0>>, <<16200,12600,0>>,
           <<16200,10800,0>>, <<16200,9600,0>>, <<16200,8700,0>>, <<17400,12600,0>>, <<17400,11400,0>>, <<17400,10500,0>>, <<17400,9600,0>> >>,
        "letter", "neutral", "static", "neutral", FALSE))
    @@ ("G" :> _create_sign_data("G",
        << <<15000,15000,0>>, <<13200,14400,600>>, <<12600,13800,900>>, <<13200,13200,1200>>, <<11400,12600,0>>, <<13800,12600,0>>, <<13800,12600,1200>>,
           <<11400,12600,0>>, <<10500,12600,0>>, <<15000,12600,0>>, <<15000,12000,1200>>, <<15600,12600,1800>>, <<15600,13800,1500>>, <<16200,12600,0>>,
           <<16200,12000,1200>>, <<16500,12600,1800>>, <<16500,13800,1500>>, <<17400,12600,0>>, <<17400,12300,900>>, <<17400,12900,1500>>, <<17400,13800,1200>> >>,
        "letter", "neutral", "static", "neutral", FALSE))
    @@ ("H" :> _create_sign_data("H",
        << <<15000,15000,0>>, <<13200,14400,600>>, <<12600,13800,900>>, <<13200,13200,1200>>, <<11400,12600,0>>, <<13800,12600,0>>, <<13800,12600,1200>>,
           <<11400,12600,0>>, <<10500,12600,0>>, <<15000,12600,0>>, <<15000,12600,1200>>, <<11400,13200,0>>, <<10500,13200,0>>, <<16200,12600,0>>,
           <<16200,12000,1200>>, <<16500,12600,1800>>, <<16500,13800,1500>>, <<17400,12600,0>>, <<17400,12300,900>>, <<17400,12900,1500>>, <<17400,13800,1200>> >>,
        "letter", "neutral", "static", "neutral", FALSE))
    @@ ("I" :> _create_sign_data("I",
        << <<15600,14400,0>>, <<14400,13800,900>>, <<14100,13200,1500>>, <<14400,12600,1500>>, <<15000,12300,1200>>, <<15000,12000,0>>, <<14400,10800,1800>>,
           <<13800,9900,3000>>, <<13200,9300,3600>>, <<16200,12600,0>>, <<16200,12000,1200>>, <<16500,12600,1800>>, <<16500,13500,1500>>, <<17400,12600,0>>,
           <<17400,12000,1200>>, <<17700,12600,1800>>, <<17700,13500,1500>>, <<18600,12600,0>>, <<18600,12000,1200>>, <<18900,12600,1800>>, <<18900,13500,1500>> >>,
        "pronoun", "neutral", "static", "chest", FALSE))
    @@ ("J" :> _create_sign_data("J",
        << <<15000,15000,0>>, <<13200,14400,600>>, <<12600,13800,900>>, <<13200,13200,1200>>, <<13800,13200,1500>>, <<13800,12600,0>>, <<13800,12000,1200>>,
           <<14400,12600,1800>>, <<14400,13800,1500>>, <<15000,12600,0>>, <<15000,12000,1200>>, <<15600,12600,1800>>, <<15600,13800,1500>>, <<16200,12600,0>>,
           <<16200,12000,1200>>, <<16500,12600,1800>>, <<16500,13800,1500>>, <<17400,11400,0>>, <<17400,9900,0>>, <<17400,9300,0>>, <<17400,9000,0>> >>,
        "letter", "neutral", "static", "neutral", FALSE))
    @@ ("K" :> _create_sign_data("K",
        << <<15000,15000,0>>, <<13200,14400,600>>, <<12600,13800,900>>, <<13200,13200,1200>>, <<14400,11400,600>>, <<13200,11400,0>>, <<13200,9600,0>>,
           <<13800,9000,0>>, <<13800,9000,0>>, <<15600,11400,0>>, <<15600,9600,0>>, <<16200,9000,0>>, <<16200,9000,0>>, <<16200,12600,0>>,
           <<16200,12000,1200>>, <<16500,12600,1800>>, <<16500,13800,1500>>, <<17400,12600,0>>, <<17400,12300,900>>, <<17400,12900,1500>>, <<17400,13800,1200>> >>,
        "letter", "neutral", "static", "neutral", FALSE))
    @@ ("L" :> _create_sign_data("L",
        << <<15000,15000,0>>, <<13200,14400,600>>, <<12600,13800,900>>, <<13200,13200,1200>>, <<10800,15000,0>>, <<13800,11400,0>>, <<13800,9600,0>>,
           <<14400,9000,0>>, <<14400,9000,0>>, <<15000,12600,0>>, <<15000,12000,1200>>, <<15600,12600,1800>>, <<15600,13800,1500>>, <<16200,12600,0>>,
           <<16200,12000,1200>>, <<16500,12600,1800>>, <<16500,13800,1500>>, <<17400,12600,0>>, <<17400,12300,900>>, <<17400,12900,1500>>, <<17400,13800,1200>> >>,
        "letter", "neutral", "static", "neutral", FALSE))
    @@ ("M" :> _create_sign_data("M",
        << <<15000,15000,0>>, <<13200,14400,600>>, <<12600,13800,900>>, <<13200,13200,1200>>, <<16200,13200,1800>>, <<13800,12600,0>>, <<13800,12000,1200>>,
           <<14400,12600,1800>>, <<14400,13200,1500>>, <<15000,12600,0>>, <<15000,12000,1200>>, <<15600,12600,1800>>, <<15600,13200,1500>>, <<16200,12600,0>>,
           <<16200,12000,1200>>, <<16500,12600,1800>>, <<16500,13200,1500>>, <<17400,12600,0>>, <<17400,12300,900>>, <<17400,12900,1500>>, <<17400,13800,1200>> >>,
        "letter", "neutral", "static", "neutral", FALSE))
    @@ ("N" :> _create_sign_data("N",
        << <<15000,15000,0>>, <<13200,14400,600>>, <<12600,13800,900>>, <<13200,13200,1200>>, <<15600,13200,1800>>, <<13800,12600,0>>, <<13800,12000,1200>>,
           <<14400,12600,1800>>, <<14400,13200,1500>>, <<15000,12600,0>>, <<15000,12000,1200>>, <<15600,12600,1800>>, <<15600,13200,1500>>, <<16200,12600,0>>,
           <<16200,12000,1200>>, <<16500,12600,1800>>, <<16500,13800,1500>>, <<17400,12600,0>>, <<17400,12300,900>>, <<17400,12900,1500>>, <<17400,13800,1200>> >>,
        "letter", "neutral", "static", "neutral", FALSE))
    @@ ("O" :> _create_sign_data("O",
        << <<15000,15000,0>>, <<13200,14400,600>>, <<12600,13800,900>>, <<13200,13200,1200>>, <<15000,13800,1500>>, <<13800,12600,0>>, <<13800,12000,1200>>,
           <<14400,12600,1800>>, <<14400,13800,1500>>, <<15000,12600,0>>, <<15000,12000,1200>>, <<15600,12600,1800>>, <<15600,13800,1500>>, <<16200,12600,0>>,
           <<16200,12000,1200>>, <<16500,12600,1800>>, <<16500,13800,1500>>, <<17400,12600,0>>, <<17400,12300,900>>, <<17400,12900,1500>>, <<17400,13800,1200>> >>,
        "letter", "neutral", "static", "neutral", FALSE))
    @@ ("P" :> _create_sign_data("P",
        << <<15000,19500,0>>, <<13200,18900,600>>, <<12600,18300,900>>, <<13200,17700,1200>>, <<14400,15900,600>>, <<13200,15900,0>>, <<13200,14100,0>>,
           <<13800,13500,0>>, <<13800,13500,0>>, <<15600,15900,0>>, <<15600,14100,0>>, <<16200,13500,0>>, <<16200,13500,0>>, <<16200,17100,0>>,
           <<16200,16500,1200>>, <<16500,17100,1800>>, <<16500,18300,1500>>, <<17400,17100,0>>, <<17400,16800,900>>, <<17400,17400,1500>>, <<17400,18300,1200>> >>,
        "letter", "neutral", "static", "neutral", FALSE))
    @@ ("Q" :> _create_sign_data("Q",
        << <<15000,19500,0>>, <<13200,18900,600>>, <<12600,18300,900>>, <<13200,17700,1200>>, <<11400,17100,0>>, <<13800,17100,0>>, <<13800,17100,1200>>,
           <<11400,17100,0>>, <<10500,17100,0>>, <<15000,17100,0>>, <<15000,16500,1200>>, <<15600,17100,1800>>, <<15600,18300,1500>>, <<16200,17100,0>>,
           <<16200,16500,1200>>, <<16500,17100,1800>>, <<16500,18300,1500>>, <<17400,17100,0>>, <<17400,16800,900>>, <<17400,17400,1500>>, <<17400,18300,1200>> >>,
        "letter", "neutral", "static", "neutral", FALSE))
    @@ ("R" :> _create_sign_data("R",
        << <<15000,15000,0>>, <<13200,14400,600>>, <<12600,13800,900>>, <<13200,13200,1200>>, <<13800,13200,1500>>, <<13200,11400,0>>, <<13200,9600,0>>,
           <<13800,9000,0>>, <<16200,9000,0>>, <<15600,11400,0>>, <<15600,9600,0>>, <<16200,9000,0>>, <<16200,9000,0>>, <<16200,12600,0>>,
           <<16200,12000,1200>>, <<16500,12600,1800>>, <<16500,13800,1500>>, <<17400,12600,0>>, <<17400,12300,900>>, <<17400,12900,1500>>, <<17400,13800,1200>> >>,
        "letter", "neutral", "static", "neutral", FALSE))
    @@ ("S" :> _create_sign_data("S",
        << <<15000,15000,0>>, <<13200,14400,600>>, <<12600,13800,900>>, <<13200,13200,1200>>, <<13800,13200,1200>>, <<13800,12600,0>>, <<13800,12000,1200>>,
           <<14400,12600,1800>>, <<14400,13800,1500>>, <<15000,12600,0>>, <<15000,12000,1200>>, <<15600,12600,1800>>, <<15600,13800,1500>>, <<16200,12600,0>>,
           <<16200,12000,1200>>, <<16500,12600,1800>>, <<16500,13800,1500>>, <<17400,12600,0>>, <<17400,12300,900>>, <<17400,12900,1500>>, <<17400,13800,1200>> >>,
        "letter", "neutral", "static", "neutral", FALSE))
    @@ ("T" :> _create_sign_data("T",
        << <<15000,15000,0>>, <<13200,14400,600>>, <<12600,13800,900>>, <<13200,13200,1200>>, <<14400,12600,1500>>, <<13800,12600,0>>, <<13800,12000,1200>>,
           <<14400,12600,1800>>, <<14400,13800,1500>>, <<15000,12600,0>>, <<15000,12000,1200>>, <<15600,12600,1800>>, <<15600,13800,1500>>, <<16200,12600,0>>,
           <<16200,12000,1200>>, <<16500,12600,1800>>, <<16500,13800,1500>>, <<17400,12600,0>>, <<17400,12300,900>>, <<17400,12900,1500>>, <<17400,13800,1200>> >>,
        "letter", "neutral", "static", "neutral", FALSE))
    @@ ("U" :> _create_sign_data("U",
        << <<15000,15000,0>>, <<13200,14400,600>>, <<12600,13800,900>>, <<13200,13200,1200>>, <<13800,13200,1500>>, <<13800,11400,0>>, <<13800,9600,0>>,
           <<14400,9000,0>>, <<14400,9000,0>>, <<14400,11400,0>>, <<14400,9600,0>>, <<15000,9000,0>>, <<15000,9000,0>>, <<16200,12600,0>>,
           <<16200,12000,1200>>, <<16500,12600,1800>>, <<16500,13800,1500>>, <<17400,12600,0>>, <<17400,12300,900>>, <<17400,12900,1500>>, <<17400,13800,1200>> >>,
        "letter", "neutral", "static", "neutral", FALSE))
    @@ ("V" :> _create_sign_data("V",
        << <<15000,15000,0>>, <<13200,14400,600>>, <<12600,13800,900>>, <<13200,13200,1200>>, <<13800,13200,1500>>, <<13200,11400,0>>, <<13200,9600,0>>,
           <<13800,9000,0>>, <<13800,9000,0>>, <<15600,11400,0>>, <<15600,9600,0>>, <<16200,9000,0>>, <<16200,9000,0>>, <<16200,12600,0>>,
           <<16200,12000,1200>>, <<16500,12600,1800>>, <<16500,13800,1500>>, <<17400,12600,0>>, <<17400,12300,900>>, <<17400,12900,1500>>, <<17400,13800,1200>> >>,
        "letter", "neutral", "static", "neutral", FALSE))
    @@ ("W" :> _create_sign_data("W",
        << <<15000,15000,0>>, <<13200,14400,600>>, <<12600,13800,900>>, <<13200,13200,1200>>, <<13800,13200,1500>>, <<12900,11400,0>>, <<12900,9600,0>>,
           <<13500,9000,0>>, <<13500,9000,0>>, <<15000,11400,0>>, <<15000,9600,0>>, <<15600,9000,0>>, <<15600,9000,0>>, <<17100,11400,0>>,
           <<17100,9600,0>>, <<17400,9000,0>>, <<17400,9000,0>>, <<17400,12600,0>>, <<17400,12300,900>>, <<17400,12900,1500>>, <<17400,13800,1200>> >>,
        "letter", "neutral", "static", "neutral", FALSE))
    @@ ("X" :> _create_sign_data("X",
        << <<15000,15000,0>>, <<13200,14400,600>>, <<12600,13800,900>>, <<13200,13200,1200>>, <<13800,13200,1500>>, <<13800,12000,0>>, <<13800,10800,1200>>,
           <<14400,12000,900>>, <<15000,12600,1200>>, <<15000,12600,0>>, <<15000,12000,1200>>, <<15600,12600,1800>>, <<15600,13800,1500>>, <<16200,12600,0>>,
           <<16200,12000,1200>>, <<16500,12600,1800>>, <<16500,13800,1500>>, <<17400,12600,0>>, <<17400,12300,900>>, <<17400,12900,1500>>, <<17400,13800,1200>> >>,
        "letter", "neutral", "static", "neutral", FALSE))
    @@ ("Y" :> _create_sign_data("Y",
        << <<15000,15000,0>>, <<13200,14400,600>>, <<12600,13800,900>>, <<13200,13200,1200>>, <<10800,13800,0>>, <<13800,12600,0>>, <<13800,12000,1200>>,
           <<14400,12600,1800>>, <<14400,13800,1500>>, <<15000,12600,0>>, <<15000,12000,1200>>, <<15600,12600,1800>>, <<15600,13800,1500>>, <<16200,12600,0>>,
           <<16200,12000,1200>>, <<16500,12600,1800>>, <<16500,13800,1500>>, <<17400,11400,0>>, <<17400,9900,0>>, <<17400,9300,0>>, <<17400,9000,0>> >>,
        "letter", "neutral", "static", "neutral", FALSE))
    @@ ("Z" :> _create_sign_data("Z",
        << <<15000,15000,0>>, <<13200,14400,600>>, <<12600,13800,900>>, <<13200,13200,1200>>, <<13800,13200,1500>>, <<13800,12000,0>>, <<13800,10200,0>>,
           <<14400,9600,0>>, <<14400,9600,0>>, <<15000,12600,0>>, <<15000,12000,1200>>, <<15600,12600,1800>>, <<15600,13800,1500>>, <<16200,12600,0>>,
           <<16200,12000,1200>>, <<16500,12600,1800>>, <<16500,13800,1500>>, <<17400,12600,0>>, <<17400,12300,900>>, <<17400,12900,1500>>, <<17400,13800,1200>> >>,
        "letter", "neutral", "static", "neutral", FALSE))
    @@ ("Hello" :> _create_animated_sign("Hello",
        << <<18000,8400,0>>, <<15000,7800,0>>, <<13800,6600,0>>, <<12900,5400,0>>, <<12300,4200,0>>, <<16500,6000,0>>, <<16800,4500,0>>,
           <<17100,3000,0>>, <<17400,1500,0>>, <<18000,6000,0>>, <<18300,4500,0>>, <<18600,3000,0>>, <<18900,1500,0>>, <<19500,6000,0>>,
           <<19800,4500,0>>, <<20100,3000,0>>, <<20400,1500,0>>, <<21000,6000,0>>, <<21300,4500,0>>, <<21600,3000,0>>, <<21900,1500,0>> >>,
        << <<20400,8400,0>>, <<17400,7800,0>>, <<16200,6600,0>>, <<15300,5400,0>>, <<14700,4200,0>>, <<18900,6000,0>>, <<19200,4500,0>>,
           <<19500,3000,0>>, <<19800,1500,0>>, <<20400,6000,0>>, <<20700,4500,0>>, <<21000,3000,0>>, <<21300,1500,0>>, <<21900,6000,0>>,
           <<22200,4500,0>>, <<22500,3000,0>>, <<22800,1500,0>>, <<23400,6000,0>>, <<23700,4500,0>>, <<24000,3000,0>>, <<24300,1500,0>> >>,
        "wave", "smile", "head", FALSE))
    @@ ("Thank you" :> _create_animated_sign("Thank you",
        << <<15000,9600,0>>, <<13200,9300,600>>, <<12600,8700,900>>, <<12300,8100,900>>, <<12000,7500,900>>, <<14100,7200,300>>, <<14100,6000,300>>,
           <<14100,4800,300>>, <<14100,3600,300>>, <<15000,7200,300>>, <<15000,6000,300>>, <<15000,4800,300>>, <<15000,3600,300>>, <<15900,7200,300>>,
           <<15900,6000,300>>, <<15900,4800,300>>, <<15900,3600,300>>, <<16800,7200,300>>, <<16800,6000,300>>, <<16800,4800,300>>, <<16800,3600,300>> >>,
        << <<15000,15000,-600>>, <<13200,14700,0>>, <<12600,14100,300>>, <<12300,13500,300>>, <<12000,12900,300>>, <<14100,12600,-300>>, <<14100,11400,-300>>,
           <<14100,10200,-300>>, <<14100,9000,-300>>, <<15000,12600,-300>>, <<15000,11400,-300>>, <<15000,10200,-300>>, <<15000,9000,-300>>, <<15900,12600,-300>>,
           <<15900,11400,-300>>, <<15900,10200,-300>>, <<15900,9000,-300>>, <<16800,12600,-300>>, <<16800,11400,-300>>, <<16800,10200,-300>>, <<16800,9000,-300>> >>,
        "outward", "smile", "chin", FALSE))
    @@ ("Good Morning" :> _create_animated_sign("Good Morning",
        << <<10500,16500,0>>, <<8100,15300,0>>, <<6900,13500,0>>, <<6300,12000,0>>, <<6000,10500,0>>, <<9300,13500,0>>, <<8220,12000,0>>,
           <<7140,10500,0>>, <<6060,9000,0>>, <<10500,13500,0>>, <<10140,12000,0>>, <<9780,10500,0>>, <<9420,9000,0>>, <<11700,13500,0>>,
           <<12060,12000,0>>, <<12420,10500,0>>, <<12780,9000,0>>, <<12900,13500,0>>, <<13980,12000,0>>, <<15060,10500,0>>, <<16140,9000,0>> >>,
        << <<15000,9000,0>>, <<12600,7800,0>>, <<11400,6000,0>>, <<10800,4500,0>>, <<10500,3000,0>>, <<13800,6000,0>>, <<12720,4500,0>>,
           <<11640,3000,0>>, <<10560,1500,0>>, <<15000,6000,0>>, <<14640,4500,0>>, <<14280,3000,0>>, <<13920,1500,0>>, <<16200,6000,0>>,
           <<16560,4500,0>>, <<16920,3000,0>>, <<17280,1500,0>>, <<17400,6000,0>>, <<18480,4500,0>>, <<19560,3000,0>>, <<20640,1500,0>> >>,
        "rising", "smile", "chest", FALSE))
    @@ ("Good night" :> _create_sign_data("Good night",
        << <<16500,9000,0>>, <<15300,8400,1200>>, <<15000,7800,1500>>, <<15000,7200,1500>>, <<15300,6600,1200>>, <<15900,6600,600>>, <<15900,5250,600>>,
           <<15900,3900,600>>, <<15900,2550,600>>, <<16500,6600,600>>, <<16500,5250,600>>, <<16500,3900,600>>, <<16500,2550,600>>, <<17100,6600,600>>,
           <<17100,5250,600>>, <<17100,3900,600>>, <<17100,2550,600>>, <<17700,6600,600>>, <<17700,5250,600>>, <<17700,3900,600>>, <<17700,2550,600>> >>,
        "phrase", "calm", "closing", "neutral", TRUE))
    @@ ("How are you" :> _create_animated_sign("How are you",
        << <<13500,12600,0>>, <<11700,12000,600>>, <<10800,11100,900>>, <<10500,10200,1200>>, <<10800,9600,1500>>, <<12600,10200,600>>, <<12600,9000,600>>,
           <<13800,7800,1800>>, <<14400,6600,2400>>, <<13500,10200,600>>, <<13500,9000,600>>, <<14700,7800,1800>>, <<15300,6600,2400>>, <<14400,10200,600>>,
           <<14400,9000,600>>, <<15600,7800,1800>>, <<16200,6600,2400>>, <<15300,10200,600>>, <<15300,9000,600>>, <<16500,7800,1800>>, <<17100,6600,2400>> >>,
        << <<17100,12600,0>>, <<15300,12000,600>>, <<14400,11100,900>>, <<14100,10200,1200>>, <<14400,9600,1500>>, <<16200,10200,600>>, <<16200,9000,600>>,
           <<17400,7800,1800>>, <<18000,6600,2400>>, <<17100,10200,600>>, <<17100,9000,600>>, <<18300,7800,1800>>, <<18900,6600,2400>>, <<18000,10200,600>>,
           <<18000,9000,600>>, <<19200,7800,1800>>, <<19800,6600,2400>>, <<18900,10200,600>>, <<18900,9000,600>>, <<20100,7800,1800>>, <<20700,6600,2400>> >>,
        "questioning", "question", "chest", FALSE))
    @@ ("Happy" :> _create_sign_data("Happy",
        << <<14400,14400,0>>, <<11700,14100,0>>, <<10500,13500,0>>, <<9600,12900,0>>, <<9000,12600,0>>, <<13500,11700,300>>, <<13500,10350,300>>,
           <<13500,9000,300>>, <<13500,7650,300>>, <<14700,11700,300>>, <<14700,10350,300>>, <<14700,9000,300>>, <<14700,7650,300>>, <<15900,11700,300>>,
           <<15900,10350,300>>, <<15900,9000,300>>, <<15900,7650,300>>, <<17100,11700,300>>, <<17100,10350,300>>, <<17100,9000,300>>, <<17100,7650,300>> >>,
        "emotion", "smile", "circular", "chest", FALSE))
    @@ ("Sad" :> _create_animated_sign("Sad",
        << <<15000,10500,0>>, <<12900,10800,300>>, <<12000,11400,600>>, <<11400,12300,600>>, <<11100,13200,600>>, <<13800,11100,600>>, <<13800,12600,600>>,
           <<13800,14100,600>>, <<13800,15600,600>>, <<15000,11100,600>>, <<15000,12600,600>>, <<15000,14100,600>>, <<15000,15600,600>>, <<16200,11100,600>>,
           <<16200,12600,600>>, <<16200,14100,600>>, <<16200,15600,600>>, <<17400,11100,600>>, <<17400,12600,600>>, <<17400,14100,600>>, <<17400,15600,600>> >>,
        << <<15000,15000,0>>, <<12900,15300,300>>, <<12000,15900,600>>, <<11400,16800,600>>, <<11100,17700,600>>, <<13800,15600,600>>, <<13800,17100,600>>,
           <<13800,18600,600>>, <<13800,20100,600>>, <<15000,15600,600>>, <<15000,17100,600>>, <<15000,18600,600>>, <<15000,20100,600>>, <<16200,15600,600>>,
           <<16200,17100,600>>, <<16200,18600,600>>, <<16200,20100,600>>, <<17400,15600,600>>, <<17400,17100,600>>, <<17400,18600,600>>, <<17400,20100,600>> >>,
        "downward", "sad", "face", FALSE))
    @@ ("Beautiful" :> _create_sign_data("Beautiful",
        << <<16500,8400,0>>, <<14100,7500,0>>, <<13200,6300,0>>, <<12600,5100,0>>, <<12300,4200,0>>, <<15900,6000,0>>, <<15900,4560,0>>,
           <<15900,3120,0>>, <<15900,1680,0>>, <<16800,6000,0>>, <<16800,4560,0>>, <<16800,3120,0>>, <<16800,1680,0>>, <<17700,6000,0>>,
           <<17700,4560,0>>, <<17700,3120,0>>, <<17700,1680,0>>, <<18600,6000,0>>, <<18600,4560,0>>, <<18600,3120,0>>, <<18600,1680,0>> >>,
        "adjective", "smile", "circular", "face", FALSE))
    @@ ("Ugly" :> _create_sign_data("Ugly",
        << <<14400,9600,0>>, <<12600,9000,900>>, <<12000,8100,1500>>, <<12300,7500,1800>>, <<12900,7200,1800>>, <<13200,7200,0>>, <<13200,6000,1200>>,
           <<13800,6600,2100>>, <<14100,7800,1800>>, <<14400,7200,0>>, <<14400,6000,1200>>, <<15000,6600,2100>>, <<15300,7800,1800>>, <<15600,7200,0>>,
           <<15600,6000,1200>>, <<16200,6600,2100>>, <<16500,7800,1800>>, <<16800,7200,0>>, <<16800,6000,1200>>, <<17400,6600,2100>>, <<17700,7800,1800>> >>,
        "adjective", "frown", "across", "face", FALSE))
    @@ ("Alright" :> _create_sign_data("Alright",
        << <<15000,13500,0>>, <<13500,12600,600>>, <<12900,11700,900>>, <<13200,10800,900>>, <<13800,10200,600>>, <<14100,11100,0>>, <<13800,10200,600>>,
           <<13500,9900,900>>, <<13800,10200,600>>, <<15300,11100,0>>, <<15300,9600,0>>, <<15300,8100,0>>, <<15300,6600,0>>, <<16500,11100,0>>,
           <<16500,9600,0>>, <<16500,8100,0>>, <<16500,6600,0>>, <<17700,11100,0>>, <<17700,9600,0>>, <<17700,8100,0>>, <<17700,6600,0>> >>,
        "expression", "neutral", "static", "neutral", FALSE))
    @@ ("Pleased" :> _create_sign_data("Pleased",
        << <<15600,15000,0>>, <<14100,15300,900>>, <<13800,15600,1200>>, <<14100,15900,1200>>, <<14700,15900,900>>, <<15000,13200,1200>>, <<15000,12000,1200>>,
           <<15000,10800,1200>>, <<15000,9600,1200>>, <<16200,13200,1200>>, <<16200,12000,1200>>, <<16200,10800,1200>>, <<16200,9600,1200>>, <<17400,13200,1200>>,
           <<17400,12000,1200>>, <<17400,10800,1200>>, <<17400,9600,1200>>, <<18600,13200,1200>>, <<18600,12000,1200>>, <<18600,10800,1200>>, <<18600,9600,1200>> >>,
        "emotion", "smile", "outward", "chest", FALSE))
    @@ ("Animal" :> _create_sign_data("Animal",
        << <<15000,15600,0>>, <<13500,14700,900>>, <<13200,13800,1500>>, <<13500,13200,1800>>, <<14100,12900,1500>>, <<13800,13500,0>>, <<13800,12600,1800>>,
           <<13800,13200,3000>>, <<13800,14100,2400>>, <<15000,13500,0>>, <<15000,12600,1800>>, <<15000,13200,3000>>, <<15000,14100,2400>>, <<16200,13500,0>>,
           <<16200,12600,1800>>, <<16200,13200,3000>>, <<16200,14100,2400>>, <<17400,13500,0>>, <<17400,12600,1800>>, <<17400,13200,3000>>, <<17400,14100,2400>> >>,
        "noun", "neutral", "rocking", "chest", FALSE))
    @@ ("Bird" :> _create_sign_data("Bird",
        << <<14400,9900,0>>, <<12600,8700,0>>, <<11400,7500,0>>, <<10500,6600,0>>, <<9900,6000,0>>, <<13200,8100,0>>, <<12000,6900,0>>,
           <<10800,6000,0>>, <<9900,5700,300>>, <<14400,8100,0>>, <<14400,7500,1200>>, <<14700,8100,1800>>, <<14700,9000,1500>>, <<15600,8100,0>>,
           <<15600,7500,1200>>, <<15900,8100,1800>>, <<15900,9000,1500>>, <<16800,8100,0>>, <<16800,7500,1200>>, <<17100,8100,1800>>, <<17100,9000,1500>> >>,
        "noun", "neutral", "opening_closing", "mouth", FALSE))
    @@ ("Cat" :> _create_sign_data("Cat",
        << <<15600,10200,0>>, <<14100,9300,300>>, <<13500,8400,600>>, <<13200,7800,600>>, <<13200,7200,300>>, <<14700,8400,0>>, <<14100,7500,300>>,
           <<13500,6900,300>>, <<13200,6900,300>>, <<15600,8400,0>>, <<15600,7500,900>>, <<15900,7800,1500>>, <<16200,8700,1200>>, <<16800,8400,0>>,
           <<16800,7500,900>>, <<17100,7800,1500>>, <<17400,8700,1200>>, <<18000,8400,0>>, <<18000,7500,900>>, <<18300,7800,1500>>, <<18600,8700,1200>> >>,
        "noun", "neutral", "outward", "cheek", TRUE))
    @@ ("Dog" :> _create_sign_data("Dog",
        << <<15000,17400,0>>, <<13200,16800,600>>, <<12600,15900,900>>, <<12900,15000,1200>>, <<13500,14700,1200>>, <<14100,15000,0>>, <<14100,13800,0>>,
           <<14100,12600,0>>, <<14100,11700,0>>, <<15300,15000,0>>, <<15300,13800,0>>, <<15300,12600,0>>, <<15300,11700,0>>, <<16500,15300,0>>,
           <<16500,14700,1200>>, <<16800,15300,1800>>, <<16800,16200,1500>>, <<17700,15300,0>>, <<17700,14700,1200>>, <<18000,15300,1800>>, <<18000,16200,1500>> >>,
        "noun", "neutral", "patting", "thigh", FALSE))
    @@ ("Cow" :> _create_sign_data("Cow",
        << <<16500,7500,0>>, <<14100,6900,0>>, <<12600,6000,0>>, <<11400,4800,0>>, <<10500,3900,0>>, <<15300,5700,0>>, <<15300,5100,1200>>,
           <<15600,5700,1800>>, <<15600,6600,1500>>, <<16500,5700,0>>, <<16500,5100,1200>>, <<16800,5700,1800>>, <<16800,6600,1500>>, <<17700,5700,0>>,
           <<17700,5100,1200>>, <<18000,5700,1800>>, <<18000,6600,1500>>, <<18900,5700,0>>, <<19500,4500,0>>, <<20100,3300,0>>, <<20700,2400,0>> >>,
        "noun", "neutral", "twisting", "temple", FALSE))
    @@ ("Horse" :> _create_sign_data("Horse",
        << <<17400,7800,0>>, <<15600,7200,900>>, <<15000,6600,1500>>, <<14700,6000,1800>>, <<14700,5400,1800>>, <<16500,5400,0>>, <<16200,3600,0>>,
           <<15900,2100,0>>, <<15600,900,0>>, <<17700,5400,0>>, <<17700,3600,0>>, <<17700,2100,0>>, <<17700,900,0>>, <<18900,6000,0>>,
           <<18900,5400,1200>>, <<19200,6000,1800>>, <<19200,6900,1500>>, <<20100,6000,0>>, <<20100,5400,1200>>, <<20400,6000,1800>>, <<20400,6900,1500>> >>,
        "noun", "neutral", "flapping", "temple", FALSE))
    @@ ("Mouse" :> _create_sign_data("Mouse",
        << <<15000,9600,0>>, <<13500,9000,600>>, <<12900,8400,900>>, <<12600,7800,900>>, <<12600,7200,900>>, <<14400,7800,0>>, <<14400,6000,0>>,
           <<14400,4500,0>>, <<14400,3300,0>>, <<15600,7800,0>>, <<15600,7200,1200>>, <<15900,7800,1800>>, <<15900,8700,1500>>, <<16800,7800,0>>,
           <<16800,7200,1200>>, <<17100,7800,1800>>, <<17100,8700,1500>>, <<18000,7800,0>>, <<18000,7200,1200>>, <<18300,7800,1800>>, <<18300,8700,1500>> >>,
        "noun", "neutral", "brushing", "nose", FALSE))
    @@ ("Fish" :> _create_sign_data("Fish",
        << <<15000,15600,0>>, <<13500,15000,600>>, <<13200,14100,600>>, <<13200,13200,600>>, <<13500,12600,600>>, <<14400,13200,300>>, <<14400,12000,300>>,
           <<14400,10800,300>>, <<14400,9600,300>>, <<15600,13200,-300>>, <<15600,12000,-300>>, <<15600,10800,-300>>, <<15600,9600,-300>>, <<16800,13200,300>>,
           <<16800,12000,300>>, <<16800,10800,300>>, <<16800,9600,300>>, <<18000,13200,-300>>, <<18000,12000,-300>>, <<18000,10800,-300>>, <<18000,9600,-300>> >>,
        "noun", "neutral", "swimming", "neutral", FALSE))
    @@ ("Mother" :> _create_sign_data("Mother",
        << <<15000,10800,0>>, <<13200,9600,1200>>, <<12600,8400,1800>>, <<12300,7500,2100>>, <<12300,6900,2100>>, <<14100,8400,0>>, <<14100,7050,0>>,
           <<14100,5700,0>>, <<14100,4350,0>>, <<15300,8400,0>>, <<15300,7050,0>>, <<15300,5700,0>>, <<15300,4350,0>>, <<16500,8400,0>>,
           <<16500,7050,0>>, <<16500,5700,0>>, <<16500,4350,0>>, <<17700,8400,0>>, <<17700,7050,0>>, <<17700,5700,0>>, <<17700,4350,0>> >>,
        "noun", "smile", "static", "chin", FALSE))
    @@ ("Father" :> _create_sign_data("Father",
        << <<15000,7800,0>>, <<13200,6900,1200>>, <<12600,6000,1800>>, <<12300,5100,2100>>, <<12300,4500,2100>>, <<14100,5400,0>>, <<14100,4050,0>>,
           <<14100,2700,0>>, <<14100,1350,0>>, <<15300,5400,0>>, <<15300,4050,0>>, <<15300,2700,0>>, <<15300,1350,0>>, <<16500,5400,0>>,
           <<16500,4050,0>>, <<16500,2700,0>>, <<16500,1350,0>>, <<17700,5400,0>>, <<17700,4050,0>>, <<17700,2700,0>>, <<17700,1350,0>> >>,
        "noun", "neutral", "static", "forehead", FALSE))
    @@ ("Daughter" :> _create_sign_data("Daughter",
        << <<15600,12600,0>>, <<14100,12000,300>>, <<13500,11400,600>>, <<13200,10800,600>>, <<13200,10200,600>>, <<14700,10800,0>>, <<14400,9600,900>>,
           <<14100,9000,1500>>, <<14100,8700,1800>>, <<15900,10800,0>>, <<15600,9600,900>>, <<15300,9000,1500>>, <<15300,8700,1800>>, <<17100,10800,0>>,
           <<16800,9600,900>>, <<16500,9000,1500>>, <<16500,8700,1800>>, <<18300,10800,0>>, <<18000,9600,900>>, <<17700,9000,1500>>, <<17700,8700,1800>> >>,
        "noun", "neutral", "cradling", "chin", FALSE))
    @@ ("Son" :> _create_sign_data("Son",
        << <<15600,9600,0>>, <<14100,9000,300>>, <<13500,8400,600>>, <<13200,7800,600>>, <<13200,7200,600>>, <<15000,7500,0>>, <<15000,6000,0>>,
           <<15000,4800,0>>, <<15000,3900,0>>, <<16200,7500,0>>, <<16200,6000,0>>, <<16200,4800,0>>, <<16200,3900,0>>, <<17400,7500,0>>,
           <<17400,6000,0>>, <<17400,4800,0>>, <<17400,3900,0>>, <<18600,7500,0>>, <<18600,6000,0>>, <<18600,4800,0>>, <<18600,3900,0>> >>,
        "noun", "neutral", "cradling", "forehead", FALSE))
    @@ ("Parent" :> _create_sign_data("Parent",
        << <<15000,10200,0>>, <<12900,9300,900>>, <<12000,8100,1200>>, <<11400,7200,1500>>, <<11100,6600,1500>>, <<14400,7800,600>>, <<14400,6540,600>>,
           <<14400,5280,600>>, <<14400,4020,600>>, <<15600,7800,600>>, <<15600,6540,600>>, <<15600,5280,600>>, <<15600,4020,600>>, <<16800,7800,600>>,
           <<16800,6540,600>>, <<16800,5280,600>>, <<16800,4020,600>>, <<18000,7800,600>>, <<18000,6540,600>>, <<18000,5280,600>>, <<18000,4020,600>> >>,
        "noun", "neutral", "alternating", "face", TRUE))
    @@ ("Chair" :> _create_sign_data("Chair",
        << <<15000,15600,0>>, <<13200,14400,0>>, <<12000,14400,0>>, <<10800,14400,0>>, <<9900,14400,0>>, <<14100,13200,0>>, <<14100,12000,900>>,
           <<14100,12600,1800>>, <<14100,13800,1800>>, <<15300,13200,0>>, <<15300,12000,900>>, <<15300,12600,1800>>, <<15300,13800,1800>>, <<16500,13800,0>>,
           <<16500,13200,1200>>, <<16800,13800,1800>>, <<16800,14700,1500>>, <<17700,13800,0>>, <<17700,13200,1200>>, <<18000,13800,1800>>, <<18000,14700,1500>> >>,
        "noun", "neutral", "tapping", "neutral", TRUE))
    @@ ("Table" :> _create_sign_data("Table",
        << <<15000,16500,0>>, <<13800,16800,900>>, <<13500,17100,1200>>, <<13800,17400,1200>>, <<14400,17400,900>>, <<14400,15300,2400>>, <<14400,14400,2400>>,
           <<14400,13500,2400>>, <<14400,12600,2400>>, <<15600,15300,2400>>, <<15600,14400,2400>>, <<15600,13500,2400>>, <<15600,12600,2400>>, <<16800,15300,2400>>,
           <<16800,14400,2400>>, <<16800,13500,2400>>, <<16800,12600,2400>>, <<18000,15300,2400>>, <<18000,14400,2400>>, <<18000,13500,2400>>, <<18000,12600,2400>> >>,
        "noun", "neutral", "patting", "neutral", TRUE))
    @@ ("Bed" :> _create_sign_data("Bed",
        << <<17400,9600,0>>, <<16200,9000,600>>, <<15900,8400,900>>, <<15900,7800,900>>, <<16200,7500,900>>, <<16800,7800,600>>, <<17400,6900,600>>,
           <<18000,6000,600>>, <<18600,5100,600>>, <<17700,7800,600>>, <<18300,6900,600>>, <<18900,6000,600>>, <<19500,5100,600>>, <<18600,7800,600>>,
           <<19200,6900,600>>, <<19800,6000,600>>, <<20400,5100,600>>, <<19500,7800,600>>, <<20100,6900,600>>, <<20700,6000,600>>, <<21300,5100,600>> >>,
        "noun", "calm", "resting", "head", FALSE))
    @@ ("Bedroom" :> _create_sign_data("Bedroom",
        << <<15000,14400,0>>, <<12900,13800,0>>, <<11700,13200,0>>, <<10800,12600,0>>, <<10200,12000,0>>, <<14100,12000,0>>, <<14100,10500,0>>,
           <<14100,9300,0>>, <<14100,8400,0>>, <<15300,12300,0>>, <<15300,11400,900>>, <<15600,12000,1500>>, <<15900,12900,1200>>, <<16500,12300,0>>,
           <<16500,11400,900>>, <<16800,12000,1500>>, <<17100,12900,1200>>, <<17700,12300,0>>, <<17700,11400,900>>, <<18000,12000,1500>>, <<18300,12900,1200>> >>,
        "noun", "neutral", "box_shape", "neutral", TRUE))
    @@ ("Door" :> _create_animated_sign("Door",
        << <<12600,14400,0>>, <<11100,13800,600>>, <<10800,13200,900>>, <<10800,12600,900>>, <<11100,12300,600>>, <<12000,12000,0>>, <<12000,10800,0>>,
           <<12000,9600,0>>, <<12000,8400,0>>, <<13200,12000,0>>, <<13200,10800,0>>, <<13200,9600,0>>, <<13200,8400,0>>, <<14400,12000,0>>,
           <<14400,10800,0>>, <<14400,9600,0>>, <<14400,8400,0>>, <<15600,12000,0>>, <<15600,10800,0>>, <<15600,9600,0>>, <<15600,8400,0>> >>,
        << <<18000,14400,0>>, <<16500,13800,600>>, <<16200,13200,900>>, <<16200,12600,900>>, <<16500,12300,600>>, <<17400,12000,1200>>, <<17400,10800,1200>>,
           <<17400,9600,1200>>, <<17400,8400,1200>>, <<18600,12000,1200>>, <<18600,10800,1200>>, <<18600,9600,1200>>, <<18600,8400,1200>>, <<19800,12000,1200>>,
           <<19800,10800,1200>>, <<19800,9600,1200>>, <<19800,8400,1200>>, <<21000,12000,1200>>, <<21000,10800,1200>>, <<21000,9600,1200>>, <<21000,8400,1200>> >>,
        "opening", "neutral", "neutral", FALSE))
    @@ ("Window" :> _create_sign_data("Window",
        << <<15000,12600,0>>, <<13200,12000,300>>, <<12600,11400,300>>, <<12300,10800,300>>, <<12000,10500,300>>, <<14100,10500,0>>, <<14100,9000,0>>,
           <<14100,7500,0>>, <<14100,6000,0>>, <<15300,10500,0>>, <<15300,9000,0>>, <<15300,7500,0>>, <<15300,6000,0>>, <<16500,10500,0>>,
           <<16500,9000,0>>, <<16500,7500,0>>, <<16500,6000,0>>, <<17700,10500,0>>, <<17700,9000,0>>, <<17700,7500,0>>, <<17700,6000,0>> >>,
        "noun", "neutral", "sliding", "neutral", TRUE))
    @@ ("Black" :> _create_sign_data("Black",
        << <<13500,7200,0>>, <<12300,6600,900>>, <<12000,6000,1200>>, <<12300,5700,1200>>, <<12900,5700,900>>, <<12900,5400,0>>, <<11700,5400,0>>,
           <<10500,5400,0>>, <<9300,5400,0>>, <<14100,5700,0>>, <<14100,5100,1200>>, <<14400,5700,1800>>, <<14400,6600,1500>>, <<15300,5700,0>>,
           <<15300,5100,1200>>, <<15600,5700,1800>>, <<15600,6600,1500>>, <<16500,5700,0>>, <<16500,5100,1200>>, <<16800,5700,1800>>, <<16800,6600,1500>> >>,
        "adjective", "neutral", "across", "forehead", FALSE))
    @@ ("White" :> _create_animated_sign("White",
        << <<15000,14400,0>>, <<12900,13800,1500>>, <<12000,13200,2400>>, <<11400,12600,3000>>, <<11100,12000,3000>>, <<14100,12300,2400>>, <<14100,11100,2400>>,
           <<14100,9900,2400>>, <<14100,8700,2400>>, <<15300,12300,2400>>, <<15300,11100,2400>>, <<15300,9900,2400>>, <<15300,8700,2400>>, <<16500,12300,2400>>,
           <<16500,11100,2400>>, <<16500,9900,2400>>, <<16500,8700,2400>>, <<17700,12300,2400>>, <<17700,11100,2400>>, <<17700,9900,2400>>, <<17700,8700,2400>> >>,
        << <<15000,15900,0>>, <<12900,15300,0>>, <<12000,14700,0>>, <<11400,14100,0>>, <<11100,13500,0>>, <<14100,15000,0>>, <<14100,13800,0>>,
           <<14100,12600,0>>, <<14100,11400,0>>, <<15300,15000,0>>, <<15300,13800,0>>, <<15300,12600,0>>, <<15300,11400,0>>, <<16500,15000,0>>,
           <<16500,13800,0>>, <<16500,12600,0>>, <<16500,11400,0>>, <<17700,15000,0>>, <<17700,13800,0>>, <<17700,12600,0>>, <<17700,11400,0>> >>,
        "outward", "neutral", "chest", FALSE))
    @@ ("Orange" :> _create_sign_data("Orange",
        << <<15000,10800,0>>, <<13500,9900,600>>, <<12900,9000,1200>>, <<13200,8100,1500>>, <<13800,7500,1200>>, <<14400,9000,0>>, <<13800,8100,900>>,
           <<13500,7500,1500>>, <<13500,7200,1200>>, <<15600,9000,0>>, <<15000,8100,900>>, <<14700,7500,1500>>, <<14700,7200,1200>>, <<16800,9000,0>>,
           <<16200,8100,900>>, <<15900,7500,1500>>, <<15900,7200,1200>>, <<18000,9000,0>>, <<17400,8100,900>>, <<17100,7500,1500>>, <<17100,7200,1200>> >>,
        "adjective", "neutral", "squeezing", "chin", FALSE))
    @@ ("Pink" :> _create_sign_data("Pink",
        << <<14400,10200,0>>, <<12600,9300,0>>, <<11400,8700,0>>, <<10500,8400,0>>, <<9900,8400,0>>, <<13800,8400,0>>, <<13800,9600,0>>,
           <<13800,11100,0>>, <<13800,12600,0>>, <<15000,8400,0>>, <<15000,9600,0>>, <<15000,11100,0>>, <<15000,12600,0>>, <<16200,8700,0>>,
           <<16200,8100,1200>>, <<16500,8700,1800>>, <<16500,9600,1500>>, <<17400,8700,0>>, <<17400,8100,1200>>, <<17700,8700,1800>>, <<17700,9600,1500>> >>,
        "adjective", "neutral", "brushing", "lips", FALSE))
    @@ ("Grey" :> _create_sign_data("Grey",
        << <<15000,15000,0>>, <<12300,14400,0>>, <<10800,13800,0>>, <<9600,13200,0>>, <<8700,12600,0>>, <<13500,12600,600>>, <<13500,11100,-600>>,
           <<13500,9600,600>>, <<13500,8100,-600>>, <<15000,12600,600>>, <<15000,11100,-600>>, <<15000,9600,600>>, <<15000,8100,-600>>, <<16500,12600,600>>,
           <<16500,11100,-600>>, <<16500,9600,600>>, <<16500,8100,-600>>, <<18000,12600,600>>, <<18000,11100,-600>>, <<18000,9600,600>>, <<18000,8100,-600>> >>,
        "adjective", "neutral", "passing", "neutral", TRUE))
    @@ ("Colour" :> _create_sign_data("Colour",
        << <<15000,11400,0>>, <<12600,10800,0>>, <<11400,10200,0>>, <<10500,9600,0>>, <<9900,9000,0>>, <<13800,9300,150>>, <<13800,7950,300>>,
           <<13800,6600,450>>, <<13800,5250,600>>, <<15000,9300,-150>>, <<15000,7950,-300>>, <<15000,6600,-450>>, <<15000,5250,-600>>, <<16200,9300,150>>,
           <<16200,7950,300>>, <<16200,6600,450>>, <<16200,5250,600>>, <<17400,9300,-150>>, <<17400,7950,-300>>, <<17400,6600,-450>>, <<17400,5250,-600>> >>,
        "noun", "neutral", "wiggling", "chin", FALSE))
    @@ ("Monday" :> _create_sign_data("Monday",
        << <<15000,13500,0>>, <<13200,12900,0>>, <<12000,12000,0>>, <<11100,11100,0>>, <<10500,10500,0>>, <<14100,11100,0>>, <<14250,9750,0>>,
           <<14400,8400,0>>, <<14550,7050,0>>, <<15000,11100,0>>, <<15150,9750,0>>, <<15300,8400,0>>, <<15450,7050,0>>, <<15900,11100,0>>,
           <<16050,9750,0>>, <<16200,8400,0>>, <<16350,7050,0>>, <<16800,11100,0>>, <<16950,9750,0>>, <<17100,8400,0>>, <<17250,7050,0>> >>,
        "time", "neutral", "circular", "neutral", FALSE))
    @@ ("Tuesday" :> _create_sign_data("Tuesday",
        << <<15000,13500,0>>, <<12600,12900,0>>, <<11400,12000,0>>, <<10500,11100,0>>, <<9900,10500,0>>, <<13950,11100,0>>, <<14100,9750,100>>,
           <<14250,8400,200>>, <<14400,7050,300>>, <<15000,11100,0>>, <<15150,9750,100>>, <<15300,8400,200>>, <<15450,7050,300>>, <<16050,11100,0>>,
           <<16200,9750,100>>, <<16350,8400,200>>, <<16500,7050,300>>, <<17100,11100,0>>, <<17250,9750,100>>, <<17400,8400,200>>, <<17550,7050,300>> >>,
        "time", "neutral", "circular", "neutral", FALSE))
    @@ ("Wednesday" :> _create_sign_data("Wednesday",
        << <<15000,13500,0>>, <<12000,12900,0>>, <<10800,12000,0>>, <<9900,11100,0>>, <<9300,10500,0>>, <<13800,11100,0>>, <<13950,9750,200>>,
           <<14100,8400,400>>, <<14250,7050,600>>, <<15000,11100,0>>, <<15150,9750,200>>, <<15300,8400,400>>, <<15450,7050,600>>, <<16200,11100,0>>,
           <<16350,9750,200>>, <<16500,8400,400>>, <<16650,7050,600>>, <<17400,11100,0>>, <<17550,9750,200>>, <<17700,8400,400>>, <<17850,7050,600>> >>,
        "time", "neutral", "circular", "neutral", FALSE))
    @@ ("Thursday" :> _create_sign_data("Thursday",
        << <<15000,13500,0>>, <<11400,12900,0>>, <<10200,12000,0>>, <<9300,11100,0>>, <<8700,10500,0>>, <<14040,11100,0>>, <<14190,9750,300>>,
           <<14340,8400,600>>, <<14490,7050,900>>, <<15000,11100,0>>, <<15150,9750,300>>, <<15300,8400,600>>, <<15450,7050,900>>, <<15960,11100,0>>,
           <<16110,9750,300>>, <<16260,8400,600>>, <<16410,7050,900>>, <<16920,11100,0>>, <<17070,9750,300>>, <<17220,8400,600>>, <<17370,7050,900>> >>,
        "time", "neutral", "circular", "neutral", FALSE))
    @@ ("Friday" :> _create_sign_data("Friday",
        << <<15000,13500,0>>, <<10800,12900,0>>, <<9600,12000,0>>, <<8700,11100,0>>, <<8100,10500,0>>, <<13860,11100,0>>, <<14010,9750,0>>,
           <<14160,8400,0>>, <<14310,7050,0>>, <<15000,11100,0>>, <<15150,9750,0>>, <<15300,8400,0>>, <<15450,7050,0>>, <<16140,11100,0>>,
           <<16290,9750,0>>, <<16440,8400,0>>, <<16590,7050,0>>, <<17280,11100,0>>, <<17430,9750,0>>, <<17580,8400,0>>, <<17730,7050,0>> >>,
        "time", "neutral", "circular", "neutral", FALSE))
    @@ ("Saturday" :> _create_sign_data("Saturday",
        << <<15000,13500,0>>, <<10200,12900,0>>, <<9000,12000,0>>, <<8100,11100,0>>, <<7500,10500,0>>, <<13740,11100,0>>, <<13890,9750,100>>,
           <<14040,8400,200>>, <<14190,7050,300>>, <<15000,11100,0>>, <<15150,9750,100>>, <<15300,8400,200>>, <<15450,7050,300>>, <<16260,11100,0>>,
           <<16410,9750,100>>, <<16560,8400,200>>, <<16710,7050,300>>, <<17520,11100,0>>, <<17670,9750,100>>, <<17820,8400,200>>, <<17970,7050,300>> >>,
        "time", "neutral", "circular", "neutral", FALSE))
    @@ ("Sunday" :> _create_sign_data("Sunday",
        << <<15000,13500,0>>, <<9600,12900,0>>, <<8400,12000,0>>, <<7500,11100,0>>, <<6900,10500,0>>, <<13650,11100,0>>, <<13800,9750,200>>,
           <<13950,8400,400>>, <<14100,7050,600>>, <<15000,11100,0>>, <<15150,9750,200>>, <<15300,8400,400>>, <<15450,7050,600>>, <<16350,11100,0>>,
           <<16500,9750,200>>, <<16650,8400,400>>, <<16800,7050,600>>, <<17700,11100,0>>, <<17850,9750,200>>, <<18000,8400,400>>, <<18150,7050,600>> >>,
        "time", "neutral", "circular", "neutral", FALSE))
    @@ ("Today" :> _create_sign_data("Today",
        << <<15000,15000,0>>, <<13200,15600,300>>, <<12600,16500,300>>, <<12300,17400,300>>, <<12300,18000,300>>, <<14100,15600,0>>, <<14100,17100,0>>,
           <<14100,18600,0>>, <<14100,20100,0>>, <<15300,15600,0>>, <<15300,17100,0>>, <<15300,18600,0>>, <<15300,20100,0>>, <<16500,15600,0>>,
           <<16500,17100,0>>, <<16500,18600,0>>, <<16500,20100,0>>, <<17700,15600,0>>, <<17700,17100,0>>, <<17700,18600,0>>, <<17700,20100,0>> >>,
        "time", "neutral", "downward", "neutral", TRUE))
    @@ ("You" :> _create_sign_data("You",
        << <<15000,13500,0>>, <<13800,12900,900>>, <<13500,12300,1500>>, <<13800,11700,1500>>, <<14400,11400,1200>>, <<14400,11100,0>>, <<14400,9900,-1200>>,
           <<14400,8700,-2400>>, <<14400,7500,-3600>>, <<15600,11700,0>>, <<15600,11100,1200>>, <<15900,11700,1800>>, <<15900,12600,1500>>, <<16800,11700,0>>,
           <<16800,11100,1200>>, <<17100,11700,1800>>, <<17100,12600,1500>>, <<18000,11700,0>>, <<18000,11100,1200>>, <<18300,11700,1800>>, <<18300,12600,1500>> >>,
        "pronoun", "neutral", "pointing_out", "neutral", FALSE))
    @@ ("He" :> _create_sign_data("He",
        << <<16500,12600,0>>, <<15300,12000,900>>, <<15000,11400,1500>>, <<15300,10800,1500>>, <<15900,10500,1200>>, <<15900,10200,0>>, <<17700,9900,0>>,
           <<19500,9900,0>>, <<21300,9900,0>>, <<17100,10800,0>>, <<17100,10200,1200>>, <<17400,10800,1800>>, <<17400,11700,1500>>, <<18300,10800,0>>,
           <<18300,10200,1200>>, <<18600,10800,1800>>, <<18600,11700,1500>>, <<19500,10800,0>>, <<19500,10200,1200>>, <<19800,10800,1800>>, <<19800,11700,1500>> >>,
        "pronoun", "neutral", "pointing_side", "neutral", FALSE))
    @@ ("She" :> _create_sign_data("She",
        << <<13500,12600,0>>, <<12300,12000,900>>, <<12000,11400,1500>>, <<12300,10800,1500>>, <<12900,10500,1200>>, <<12900,10200,0>>, <<11100,9900,0>>,
           <<9300,9900,0>>, <<7500,9900,0>>, <<14100,10800,0>>, <<14100,10200,1200>>, <<14400,10800,1800>>, <<14400,11700,1500>>, <<15300,10800,0>>,
           <<15300,10200,1200>>, <<15600,10800,1800>>, <<15600,11700,1500>>, <<16500,10800,0>>, <<16500,10200,1200>>, <<16800,10800,1800>>, <<16800,11700,1500>> >>,
        "pronoun", "neutral", "pointing_side", "neutral", FALSE))
    @@ ("It" :> _create_sign_data("It",
        << <<15000,14400,0>>, <<13800,13800,900>>, <<13500,13200,1500>>, <<13800,12600,1500>>, <<14400,12300,1200>>, <<14400,12600,0>>, <<14400,14400,0>>,
           <<14400,16200,0>>, <<14400,18000,0>>, <<15600,12600,0>>, <<15600,12000,1200>>, <<15900,12600,1800>>, <<15900,13500,1500>>, <<16800,12600,0>>,
           <<16800,12000,1200>>, <<17100,12600,1800>>, <<17100,13500,1500>>, <<18000,12600,0>>, <<18000,12000,1200>>, <<18300,12600,1800>>, <<18300,13500,1500>> >>,
        "pronoun", "neutral", "pointing_down", "neutral", FALSE))
    @@ ("Blind" :> _create_sign_data("Blind",
        << <<15000,7800,0>>, <<13800,7200,900>>, <<13500,6600,1500>>, <<13800,6000,1500>>, <<14400,5700,1200>>, <<13800,5400,0>>, <<13200,3600,600>>,
           <<12600,2400,900>>, <<12000,1500,900>>, <<15000,5400,0>>, <<15600,3600,600>>, <<16200,2400,900>>, <<16800,1500,900>>, <<16200,6000,0>>,
           <<16200,5400,1200>>, <<16500,6000,1800>>, <<16500,6900,1500>>, <<17400,6000,0>>, <<17400,5400,1200>>, <<17700,6000,1800>>, <<17700,6900,1500>> >>,
        "adjective", "neutral", "static", "eyes", FALSE))
    @@ ("Deaf" :> _create_sign_data("Deaf",
        << <<18600,8400,0>>, <<17400,7800,600>>, <<16800,7200,900>>, <<16500,6600,900>>, <<16500,6000,900>>, <<18000,6000,0>>, <<18000,4500,0>>,
           <<18000,3300,0>>, <<18000,2400,0>>, <<19200,6300,0>>, <<19200,5400,600>>, <<19500,5700,1200>>, <<19500,6600,900>>, <<20400,6300,0>>,
           <<20400,5400,600>>, <<20700,5700,1200>>, <<20700,6600,900>>, <<21600,6300,0>>, <<21600,5400,600>>, <<21900,5700,1200>>, <<21900,6600,900>> >>,
        "adjective", "neutral", "touching", "ear", FALSE))
    @@ ("Dream" :> _create_animated_sign("Dream",
        << <<15600,7500,0>>, <<14400,6900,900>>, <<14100,6300,1500>>, <<14400,5700,1500>>, <<15000,5400,1200>>, <<15000,5100,0>>, <<15000,3600,0>>,
           <<15000,2400,0>>, <<15000,1500,0>>, <<16200,5700,0>>, <<16200,5100,1200>>, <<16500,5700,1800>>, <<16500,6600,1500>>, <<17400,5700,0>>,
           <<17400,5100,1200>>, <<17700,5700,1800>>, <<17700,6600,1500>>, <<18600,5700,0>>, <<18600,5100,1200>>, <<18900,5700,1800>>, <<18900,6600,1500>> >>,
        << <<19200,5100,0>>, <<18000,4500,900>>, <<17700,3900,1500>>, <<18000,3300,1500>>, <<18600,3000,1200>>, <<18600,2700,0>>, <<18600,1200,0>>,
           <<18600,0,0>>, <<18600,-900,0>>, <<19800,3300,0>>, <<19800,2700,1200>>, <<20100,3300,1800>>, <<20100,4200,1500>>, <<21000,3300,0>>,
           <<21000,2700,1200>>, <<21300,3300,1800>>, <<21300,4200,1500>>, <<22200,3300,0>>, <<22200,2700,1200>>, <<22500,3300,1800>>, <<22500,4200,1500>> >>,
        "rising", "calm", "forehead", FALSE))
    @@ ("Loud" :> _create_sign_data("Loud",
        << <<17400,8400,0>>, <<15000,7800,0>>, <<13800,7200,0>>, <<12900,6600,0>>, <<12300,6000,0>>, <<15900,6000,0>>, <<13650,4500,0>>,
           <<11400,3000,0>>, <<9150,1500,0>>, <<17400,6000,0>>, <<16650,4500,0>>, <<15900,3000,0>>, <<15150,1500,0>>, <<18900,6000,0>>,
           <<19650,4500,0>>, <<20400,3000,0>>, <<21150,1500,0>>, <<20400,6000,0>>, <<22650,4500,0>>, <<24900,3000,0>>, <<27150,1500,0>> >>,
        "adjective", "neutral", "expanding", "ears", TRUE))
    @@ ("Quiet" :> _create_sign_data("Quiet",
        << <<15000,9600,0>>, <<13500,9000,900>>, <<12900,8400,1500>>, <<12600,7800,1800>>, <<12600,7200,1800>>, <<14400,7800,0>>, <<14400,6300,0>>,
           <<14400,5100,0>>, <<14400,4200,0>>, <<15600,8100,0>>, <<15600,7500,1500>>, <<16200,8100,2100>>, <<16200,9000,1800>>, <<16800,8100,0>>,
           <<16800,7500,1500>>, <<17400,8100,2100>>, <<17400,9000,1800>>, <<18000,8100,0>>, <<18000,7500,1500>>, <<18600,8100,2100>>, <<18600,9000,1800>> >>,
        "adjective", "calm", "downward", "lips", FALSE))

\* _create_sign_data('Unknown', _create_base_hand(), 'default', facial='question')
_get_default_sign ==
  [name |-> "Unknown", type |-> "default", facial_expression |-> "question",
   motion_type |-> "static", body_region |-> "neutral", two_hands |-> FALSE,
   keyframes |-> << [frame |-> 0,
                     right_hand |-> _create_base_hand(Hundredths(50), Hundredths(50)),
                     left_hand |-> None] >>]

\* mutant: an unknown name resolves to the first stored definition
get_sign_first(sign_name) ==
  IF sign_name \in DOMAIN signs THEN signs[sign_name] ELSE signs["0"]

\* self.signs.get(sign_name, self._get_default_sign())
get_sign(sign_name) ==
  IF sign_name \in DOMAIN signs THEN signs[sign_name] ELSE _get_default_sign

\* mutant: the interpolation starts from the end pose
_interpolate_landmarks_from_end(start, end, progress) ==
  [i \in 1..(IF Len(start) <= Len(end) THEN Len(start) ELSE Len(end)) |->
     [x |-> end[i].x + scaled(end[i].x - start[i].x, progress),
      y |-> end[i].y + scaled(end[i].y - start[i].y, progress),
      z |-> end[i].z + scaled(end[i].z - start[i].z, progress)]]

\* mutant: a start pose longer than the end pose keeps its extra landmarks
_interpolate_landmarks_keep_start(start, end, progress) ==
  [i \in 1..Len(start) |->
     IF i <= Len(end)
     THEN [x |-> start[i].x + scaled(end[i].x - start[i].x, progress),
           y |-> start[i].y + scaled(end[i].y - start[i].y, progress),
           z |-> start[i].z + scaled(end[i].z - start[i].z, progress)]
     ELSE start[i]]

_interpolate_landmarks(start, end, progress) ==
  [i \in 1..(IF Len(start) <= Len(end) THEN Len(start) ELSE Len(end)) |->
     [x |-> start[i].x + scaled(end[i].x - start[i].x, progress),
      y |-> start[i].y + scaled(end[i].y - start[i].y, progress),
      z |-> start[i].z + scaled(end[i].z - start[i].z, progress)]]

interpolate_keyframes(sign_name, progress) ==
  LET sign      == get_sign(sign_name)
      keyframes == sign.keyframes
  IN  IF Len(keyframes) < 2
      THEN IF keyframes # <<>> THEN keyframes[1]
           ELSE [right_hand |-> _create_base_hand(Hundredths(50), Hundredths(50))]
      ELSE LET start == keyframes[1]
               end   == keyframes[2]
               right == _interpolate_landmarks(start.right_hand, end.right_hand, progress)
           IN  IF start.left_hand # None /\ end.left_hand # None
               THEN [frame |-> progress, right_hand |-> right,
                     left_hand |-> _interpolate_landmarks(start.left_hand, end.left_hand, progress)]
               ELSE [frame |-> progress, right_hand |-> right]

\* ------------------------------------------------------------------------
\* AnimationGenerator
\* ------------------------------------------------------------------------
config ==
  [fps |-> 30, default_sign_duration |-> 1500, transition_duration |-> 300,
   min_sign_duration |-> 800, max_sign_duration |-> 2500]

facial_expressions ==
     ("neutral"  :> [eyebrows |-> 0, mouth |-> "closed", eyes |-> "open"])
  @@ ("smile"    :> [eyebrows |-> Hundredths(10), mouth |-> "smile", eyes |-> "open"])
  @@ ("sad"      :> [eyebrows |-> -Hundredths(20), mouth |-> "frown", eyes |-> "droopy"])
  @@ ("question" :> [eyebrows |-> Hundredths(30), mouth |-> "open_slight", eyes |-> "wide"])
  @@ ("calm"     :> [eyebrows |-> 0, mouth |-> "closed", eyes |-> "relaxed"])
  @@ ("frown"    :> [eyebrows |-> -Hundredths(30), mouth |-> "frown", eyes |-> "narrow"])
  @@ ("intense"  :> [eyebrows |-> Hundredths(20), mouth |-> "open", eyes |-> "wide"])

body_postures ==
     ("neutral"  :> [shoulder_rotation |-> 0, torso_tilt |-> 0, head_tilt |-> 0])
  @@ ("head"     :> [shoulder_rotation |-> 0, torso_tilt |-> 0, head_tilt |-> Hundredths(10)])
  @@ ("chest"    :> [shoulder_rotation |-> 0, torso_tilt |-> Hundredths(5), head_tilt |-> 0])
  @@ ("face"     :> [shoulder_rotation |-> 0, torso_tilt |-> 0, head_tilt |-> Hundredths(15)])
  @@ ("forehead" :> [shoulder_rotation |-> 0, torso_tilt |-> 0, head_tilt |-> Hundredths(20)])
  @@ ("chin"     :> [shoulder_rotation |-> 0, torso_tilt |-> 0, head_tilt |-> -Hundredths(10)])
  @@ ("ears"     :> [shoulder_rotation |-> Hundredths(10), torso_tilt |-> 0, head_tilt |-> 0])
  @@ ("temple"   :> [shoulder_rotation |-> Hundredths(5), torso_tilt |-> 0, head_tilt |-> Hundredths(10)])
  @@ ("nose"     :> [shoulder_rotation |-> 0, torso_tilt |-> 0, head_tilt |-> Hundredths(5)])
  @@ ("mouth"    :> [shoulder_rotation |-> 0, torso_tilt |-> 0, head_tilt |-> 0])
  @@ ("lips"     :> [shoulder_rotation |-> 0, torso_tilt |-> 0, head_tilt |-> 0])
  @@ ("cheek"    :> [shoulder_rotation |-> Hundredths(5), torso_tilt |-> 0, head_tilt |-> Hundredths(5)])
  @@ ("eyes"     :> [shoulder_rotation |-> 0, torso_tilt |-> 0, head_tilt |-> Hundredths(10)])
  @@ ("ear"      :> [shoulder_rotation |-> Hundredths(10), torso_tilt |-> 0, head_tilt |-> Hundredths(5)])
  @@ ("thigh"    :> [shoulder_rotation |-> 0, torso_tilt |-> Hundredths(10), head_tilt |-> -Hundredths(10)])

Max(a, b) == IF a >= b THEN a ELSE b
Min(a, b) == IF a <= b THEN a ELSE b

\* mutant: a phrase gets the default base duration
base_duration_no_phrase(sign_type) ==
  IF sign_type = "letter" THEN 800
  ELSE IF sign_type = "number" THEN 1000
  ELSE IF sign_type = "animated" THEN 1800
  ELSE generator.config.default_sign_duration

base_duration(sign_type) ==
  IF sign_type = "letter" THEN 800
  ELSE IF sign_type = "number" THEN 1000
  ELSE IF sign_type = "phrase" THEN 2000
  ELSE IF sign_type = "animated" THEN 1800
  ELSE generator.config.default_sign_duration

motion_adjustment(motion) ==
  IF motion \in {"circular", "wave", "alternating"} THEN 300
  ELSE IF motion = "static" THEN -200
  ELSE 0

_calculate_sign_duration(sign_data) ==
  Max(generator.config.min_sign_duration,
      Min(generator.config.max_sign_duration,
          base_duration(sign_data.type) + motion_adjustment(sign_data.motion_type)))

\* mutant: the quotient duration / 1000 is truncated before it is multiplied
frame_count_int_div(duration, least) ==
  Max((duration \div 1000) * generator.config.fps, least)

\* mutant: the last frame period of the block is not counted
frame_count_exclusive(duration, least) ==
  Max((duration * generator.config.fps - 1) \div 1000, least)

\* max(int(duration / 1000 * fps), least): every duration here is a whole
\* number of frame periods, so the float product is the exact quotient
frame_count(duration, least) == Max((duration * generator.config.fps) \div 1000, least)

\* mutant: the timestamps of every block start at 0
frame_timestamp_from_zero(start_time, frame_num) == frame_num * 1000

\* A frame's timestamp start_time + frame_num * 1000 / fps is kept as the
\* integer timestamp * fps, that is in units of 1/fps ms.
frame_timestamp(start_time, frame_num) ==
  start_time * generator.config.fps + frame_num * 1000

\* _ease_in_out_cubic(t) for t = n / d
_ease_in_out_cubic(n, d) ==
  IF 2 * n < d
  THEN (4 * n * n * n * ProgressUnit) \div (d * d * d)
  ELSE ProgressUnit - (4 * (d - n) * (d - n) * (d - n) * ProgressUnit) \div (d * d * d)

\* mutant: the last landmark is not copied
moved_short(base_hand, dx, dy, dz) ==
  [i \in 1..(Len(base_hand) - 1) |->
     [x |-> base_hand[i].x + dx, y |-> base_hand[i].y + dy, z |-> base_hand[i].z + dz]]

\* the list of {'x': lm['x'] + dx, 'y': lm['y'] + dy, 'z': lm['z'] + dz}
moved(base_hand, dx, dy, dz) ==
  [i \in DOMAIN base_hand |->
     [x |-> base_hand[i].x + dx, y |-> base_hand[i].y + dy, z |-> base_hand[i].z + dz]]

\* the mirrored left hand {'x': 1 - lm['x'] - dx, 'y': lm['y'] + dy, 'z': lm['z']}
mirrored(base_hand, dx, dy) ==
  [i \in DOMAIN base_hand |->
     [x |-> Hundredths(100) - base_hand[i].x - dx, y |-> base_hand[i].y + dy,
      z |-> base_hand[i].z]]

_interpolate_static(keyframes, progress, sign_data) ==
  [right_hand |-> keyframes[1].right_hand,
   left_hand  |-> IF sign_data.two_hands THEN keyframes[1].left_hand ELSE None]

_interpolate_wave(keyframes, progress, sign_data) ==
  LET wave_offset == scaled(Hundredths(5), math_sin(progress * 4))
  IN  [right_hand |-> moved(keyframes[1].right_hand, wave_offset, 0, 0), left_hand |-> None]

_interpolate_circular(keyframes, progress, sign_data) ==
  LET angle  == progress * 2
      radius == Hundredths(3)
  IN  [right_hand |-> moved(keyframes[1].right_hand, scaled(radius, math_cos(angle)),
                            scaled(radius, math_sin(angle)), 0),
       left_hand |-> None]

_interpolate_outward(keyframes, progress, sign_data) ==
  IF Len(keyframes) >= 2
  THEN [right_hand |-> _interpolate_landmarks(keyframes[1].right_hand,
                                              keyframes[2].right_hand, progress),
        left_hand |-> None]
  ELSE [right_hand |-> moved(keyframes[1].right_hand, 0, scaled(Hundredths(10), progress),
                             -scaled(Hundredths(5), progress)),
        left_hand |-> None]

_interpolate_downward(keyframes, progress, sign_data) ==
  [right_hand |-> moved(keyframes[1].right_hand, 0, scaled(Hundredths(15), progress), 0),
   left_hand |-> None]

_interpolate_rising(keyframes, progress, sign_data) ==
  IF Len(keyframes) >= 2
  THEN [right_hand |-> _interpolate_landmarks(keyframes[1].right_hand,
                                              keyframes[2].right_hand, progress),
        left_hand |-> None]
  ELSE [right_hand |-> moved(keyframes[1].right_hand, 0, -scaled(Hundredths(15), progress), 0),
        left_hand |-> None]

_interpolate_opening(keyframes, progress, sign_data) ==
  LET rotation == scaled(Hundredths(10), progress)
  IN  [right_hand |-> moved(keyframes[1].right_hand, rotation, 0, -(rotation \div 2)),
       left_hand |-> None]

_interpolate_closing(keyframes, progress, sign_data) ==
  LET base_hand    == keyframes[1].right_hand
      close_amount == scaled(Hundredths(5), progress)
      center_x     == Hundredths(50)
  IN  [right_hand |->
         [i \in DOMAIN base_hand |->
            [x |-> base_hand[i].x + ((center_x - base_hand[i].x) * close_amount) \div CoordUnit,
             y |-> base_hand[i].y,
             z |-> base_hand[i].z + close_amount]],
       left_hand |-> None]

\* landmark i (from 0) is moved by sin(progress * pi * 6 + i * 0.5) * 0.02; half a
\* radian is 159.155 thousandths of pi
_interpolate_wiggling(keyframes, progress, sign_data) ==
  LET base_hand == keyframes[1].right_hand
  IN  [right_hand |->
         [i \in DOMAIN base_hand |->
            [x |-> base_hand[i].x
                     + scaled(Hundredths(2),
                              math_sin(progress * 6 + ((i - 1) * 159155) \div 1000)),
             y |-> base_hand[i].y,
             z |-> base_hand[i].z]],
       left_hand |-> None]

_interpolate_tapping(keyframes, progress, sign_data) ==
  LET tap      == scaled(Hundredths(3), Abs(math_sin(progress * 4)))
      modified == moved(keyframes[1].right_hand, 0, tap, -tap)
  IN  [right_hand |-> modified,
       left_hand |-> IF sign_data.two_hands THEN modified ELSE None]

_interpolate_brushing(keyframes, progress, sign_data) ==
  LET brush == scaled(Hundredths(8), math_sin(progress * 2))
  IN  [right_hand |-> moved(keyframes[1].right_hand, brush, 0, 0), left_hand |-> None]

_interpolate_rocking(keyframes, progress, sign_data) ==
  LET rock     == scaled(Hundredths(4), math_sin(progress * 4))
      modified == moved(keyframes[1].right_hand, 0, rock, rock \div 2)
  IN  [right_hand |-> modified,
       left_hand |-> IF sign_data.two_hands THEN modified ELSE None]

_interpolate_alternating(keyframes, progress, sign_data) ==
  LET alt == scaled(Hundredths(5), math_sin(progress * 4))
  IN  [right_hand |-> moved(keyframes[1].right_hand, 0, alt, 0),
       left_hand  |-> mirrored(keyframes[1].right_hand, 0, -alt)]

_interpolate_swimming(keyframes, progress, sign_data) ==
  LET swim    == scaled(Hundredths(5), math_sin(progress * 6))
      forward == scaled(Hundredths(10), progress)
  IN  [right_hand |-> moved(keyframes[1].right_hand, forward, swim, 0), left_hand |-> None]

_interpolate_flapping(keyframes, progress, sign_data) ==
  LET base_hand == keyframes[1].right_hand
      flap      == scaled(Hundredths(4), Abs(math_sin(progress * 6)))
  IN  [right_hand |->
         [i \in DOMAIN base_hand |->
            IF i - 1 >= 5
            THEN [x |-> base_hand[i].x, y |-> base_hand[i].y - flap, z |-> base_hand[i].z]
            ELSE base_hand[i]],
       left_hand |-> None]

_interpolate_squeezing(keyframes, progress, sign_data) ==
  LET squeeze == scaled(Hundredths(2), math_sin(progress * 4))
  IN  [right_hand |-> moved(keyframes[1].right_hand, 0, 0, squeeze), left_hand |-> None]

_interpolate_patting(keyframes, progress, sign_data) ==
  LET pat      == scaled(Hundredths(5), Abs(math_sin(progress * 4)))
      modified == moved(keyframes[1].right_hand, 0, pat, 0)
  IN  [right_hand |-> modified,
       left_hand |-> IF sign_data.two_hands THEN modified ELSE None]

_interpolate_pointing(keyframes, progress, sign_data) ==
  LET thrust == scaled(Hundredths(5), progress)
  IN  [right_hand |-> moved(keyframes[1].right_hand, 0, 0, -thrust), left_hand |-> None]

_interpolate_open_close(keyframes, progress, sign_data) ==
  LET base_hand  == keyframes[1].right_hand
      open_close == scaled(Hundredths(3), Abs(math_sin(progress * 4)))
  IN  [right_hand |->
         [i \in DOMAIN base_hand |->
            IF i - 1 = 4 \/ i - 1 = 8
            THEN [x |-> base_hand[i].x,
                  y |-> IF i - 1 = 8 THEN base_hand[i].y - open_close
                        ELSE base_hand[i].y + open_close,
                  z |-> base_hand[i].z]
            ELSE base_hand[i]],
       left_hand |-> None]

_interpolate_across(keyframes, progress, sign_data) ==
  LET across == scaled(Hundredths(15), progress)
  IN  [right_hand |-> moved(keyframes[1].right_hand, across, 0, 0), left_hand |-> None]

_interpolate_sliding(keyframes, progress, sign_data) ==
  LET slide    == scaled(Hundredths(8), math_sin(progress * 2))
      modified == moved(keyframes[1].right_hand, 0, slide, 0)
  IN  [right_hand |-> modified,
       left_hand |-> IF sign_data.two_hands THEN modified ELSE None]

_interpolate_passing(keyframes, progress, sign_data) ==
  LET pass_amt == scaled(Hundredths(15), progress)
  IN  [right_hand |-> moved(keyframes[1].right_hand, pass_amt, 0, 0),
       left_hand  |-> mirrored(keyframes[1].right_hand, pass_amt, 0)]

_interpolate_expanding(keyframes, progress, sign_data) ==
  LET expand == scaled(Hundredths(12), progress)
  IN  [right_hand |-> moved(keyframes[1].right_hand, expand, 0, 0),
       left_hand  |-> mirrored(keyframes[1].right_hand, expand, 0)]

_interpolate_touching(keyframes, progress, sign_data) ==
  LET touch == scaled(Hundredths(5), math_sin(progress))
  IN  [right_hand |-> moved(keyframes[1].right_hand, 0, 0, touch), left_hand |-> None]

\* twist = sin(progress * pi * 2) * 0.04 radians, here in thousandths of a
\* radian and then, for its sine and cosine, in thousandths of pi
_interpolate_twisting(keyframes, progress, sign_data) ==
  LET base_hand == keyframes[1].right_hand
      twist     == (scaled(40, math_sin(progress * 2)) * 1000) \div 3142
      center_x  == SumSeq([i \in DOMAIN base_hand |-> base_hand[i].x]) \div Len(base_hand)
      center_y  == SumSeq([i \in DOMAIN base_hand |-> base_hand[i].y]) \div Len(base_hand)
  IN  [right_hand |->
         [i \in DOMAIN base_hand |->
            LET dx == base_hand[i].x - center_x
                dy == base_hand[i].y - center_y
            IN  [x |-> center_x + scaled(dx, math_cos(twist)) - scaled(dy, math_sin(twist)),
                 y |-> center_y + scaled(dx, math_sin(twist)) + scaled(dy, math_cos(twist)),
                 z |-> base_hand[i].z]],
       left_hand |-> None]

_interpolate_questioning(keyframes, progress, sign_data) ==
  LET question == scaled(Hundredths(5), math_sin(progress * 2))
  IN  [right_hand |-> moved(keyframes[1].right_hand, question, -(question \div 2), 0),
       left_hand |-> None]

_interpolate_cradling(keyframes, progress, sign_data) ==
  LET cradle == scaled(Hundredths(4), math_sin(progress * 2))
  IN  [right_hand |-> moved(keyframes[1].right_hand, 0, cradle, 0),
       left_hand  |-> mirrored(keyframes[1].right_hand, 0, -cradle)]

_interpolate_resting(keyframes, progress, sign_data) ==
  LET modified == keyframes[1].right_hand
  IN  [right_hand |-> modified,
       left_hand |-> IF sign_data.two_hands THEN modified ELSE None]

_interpolate_box(keyframes, progress, sign_data) ==
  LET segment      == ((progress * 4) \div ProgressUnit) % 4
      seg_progress == (progress * 4) % ProgressUnit
      offsets      == << <<0, Hundredths(10)>>, <<Hundredths(10), 0>>,
                         <<0, -Hundredths(10)>>, <<-Hundredths(10), 0>> >>
      ox           == scaled(offsets[segment + 1][1], seg_progress)
      oy           == scaled(offsets[segment + 1][2], seg_progress)
  IN  [right_hand |-> moved(keyframes[1].right_hand, ox, oy, 0),
       left_hand  |-> mirrored(keyframes[1].right_hand, ox, oy)]

\* mutant: the three pointing motions are missing from the table
motion_pattern_keys_no_pointing ==
  { "static", "wave", "circular", "outward", "downward", "rising", "opening", "closing",
    "wiggling", "tapping", "brushing", "rocking", "alternating", "swimming", "flapping",
    "squeezing", "patting", "opening_closing", "across", "sliding", "passing", "expanding",
    "touching", "twisting", "questioning", "cradling", "resting", "box_shape" }

\* the keys of self.motion_patterns
motion_pattern_keys ==
  { "static", "wave", "circular", "outward", "downward", "rising", "opening", "closing",
    "wiggling", "tapping", "brushing", "rocking", "alternating", "swimming", "flapping",
    "squeezing", "patting", "pointing_out", "pointing_side", "pointing_down",
    "opening_closing", "across", "sliding", "passing", "expanding", "touching", "twisting",
    "questioning", "cradling", "resting", "box_shape" }

\* self.motion_patterns.get(motion_type, self._interpolate_static) applied
motion_patterns(motion_type, keyframes, progress, sign_data) ==
  CASE motion_type = "static"          -> _interpolate_static(keyframes, progress, sign_data)
    [] motion_type = "wave"            -> _interpolate_wave(keyframes, progress, sign_data)
    [] motion_type = "circular"        -> _interpolate_circular(keyframes, progress, sign_data)
    [] motion_type = "outward"         -> _interpolate_outward(keyframes, progress, sign_data)
    [] motion_type = "downward"        -> _interpolate_downward(keyframes, progress, sign_data)
    [] motion_type = "rising"          -> _interpolate_rising(keyframes, progress, sign_data)
    [] motion_type = "opening"         -> _interpolate_opening(keyframes, progress, sign_data)
    [] motion_type = "closing"         -> _interpolate_closing(keyframes, progress, sign_data)
    [] motion_type = "wiggling"        -> _interpolate_wiggling(keyframes, progress, sign_data)
    [] motion_type = "tapping"         -> _interpolate_tapping(keyframes, progress, sign_data)
    [] motion_type = "brushing"        -> _interpolate_brushing(keyframes, progress, sign_data)
    [] motion_type = "rocking"         -> _interpolate_rocking(keyframes, progress, sign_data)
    [] motion_type = "alternating"     -> _interpolate_alternating(keyframes, progress, sign_data)
    [] motion_type = "swimming"        -> _interpolate_swimming(keyframes, progress, sign_data)
    [] motion_type = "flapping"        -> _interpolate_flapping(keyframes, progress, sign_data)
    [] motion_type = "squeezing"       -> _interpolate_squeezing(keyframes, progress, sign_data)
    [] motion_type = "patting"         -> _interpolate_patting(keyframes, progress, sign_data)
    [] motion_type \in {"pointing_out", "pointing_side", "pointing_down"}
                                       -> _interpolate_pointing(keyframes, progress, sign_data)
    [] motion_type = "opening_closing" -> _interpolate_open_close(keyframes, progress, sign_data)
    [] motion_type = "across"          -> _interpolate_across(keyframes, progress, sign_data)
    [] motion_type = "sliding"         -> _interpolate_sliding(keyframes, progress, sign_data)
    [] motion_type = "passing"         -> _interpolate_passing(keyframes, progress, sign_data)
    [] motion_type = "expanding"       -> _interpolate_expanding(keyframes, progress, sign_data)
    [] motion_type = "touching"        -> _interpolate_touching(keyframes, progress, sign_data)
    [] motion_type = "twisting"        -> _interpolate_twisting(keyframes, progress, sign_data)
    [] motion_type = "questioning"     -> _interpolate_questioning(keyframes, progress, sign_data)
    [] motion_type = "cradling"        -> _interpolate_cradling(keyframes, progress, sign_data)
    [] motion_type = "resting"         -> _interpolate_resting(keyframes, progress, sign_data)
    [] motion_type = "box_shape"       -> _interpolate_box(keyframes, progress, sign_data)
    [] OTHER                           -> _interpolate_static(keyframes, progress, sign_data)

\* expression.copy()
_interpolate_facial(expression, progress) == expression

_interpolate_body_posture(posture, progress) ==
  LET variation == scaled(Hundredths(2), math_sin(progress * 2))
  IN  [shoulder_rotation |-> posture.shoulder_rotation + variation,
       torso_tilt |-> posture.torso_tilt,
       head_tilt |-> posture.head_tilt]

\* dict.get(key, table['neutral'])
get_or_neutral(table, key) == IF key \in DOMAIN table THEN table[key] ELSE table["neutral"]

_generate_sign_frames(sign_name, sign_data, duration, start_time) ==
  LET total_frames == frame_count(duration, 5)
      motion_type  == sign_data.motion_type
      keyframes    == IF sign_data.keyframes # <<>> THEN sign_data.keyframes
                      ELSE << [right_hand |-> _create_base_hand(Hundredths(50), Hundredths(50))] >>
      facial_data  == get_or_neutral(generator.facial_expressions, sign_data.facial_expression)
      body_posture == get_or_neutral(generator.body_postures, sign_data.body_region)
  IN  [k \in 1..total_frames |->
         LET frame_num      == k - 1
             eased_progress == _ease_in_out_cubic(frame_num, Max(total_frames - 1, 1))
             hand_positions == motion_patterns(motion_type, keyframes, eased_progress, sign_data)
         IN  [frame_number      |-> frame_num,
              total_frames      |-> total_frames,
              timestamp         |-> frame_timestamp(start_time, frame_num),
              progress          |-> eased_progress,
              sign              |-> sign_name,
              right_hand        |-> hand_positions.right_hand,
              left_hand         |-> hand_positions.left_hand,
              facial_expression |-> _interpolate_facial(facial_data, eased_progress),
              body_posture      |-> _interpolate_body_posture(body_posture, eased_progress),
              motion_type       |-> motion_type,
              two_hands         |-> sign_data.two_hands]]

\* mutant: the transition starts from the first keyframe of the sign it leaves
_generate_transition_frames_first(from_sign, to_sign, start_time) ==
  LET total_frames == frame_count(generator.config.transition_duration, 3)
      from_hand    == from_sign.keyframes[1].right_hand
      to_hand      == to_sign.keyframes[1].right_hand
  IN  [k \in 1..total_frames |->
         LET eased == _ease_in_out_cubic(k - 1, Max(total_frames - 1, 1))
         IN  [frame_number      |-> k - 1,
              total_frames      |-> total_frames,
              timestamp         |-> frame_timestamp(start_time, k - 1),
              progress          |-> eased,
              sign              |-> "transition",
              right_hand        |-> _interpolate_landmarks(from_hand, to_hand, eased),
              left_hand         |-> None,
              facial_expression |-> generator.facial_expressions["neutral"],
              body_posture      |-> generator.body_postures["neutral"],
              motion_type       |-> "transition",
              two_hands         |-> FALSE]]

_generate_transition_frames(from_sign, to_sign, start_time) ==
  LET total_frames   == frame_count(generator.config.transition_duration, 3)
      from_keyframes == from_sign.keyframes
      to_keyframes   == to_sign.keyframes
      from_hand      == IF from_keyframes # <<>>
                        THEN from_keyframes[Len(from_keyframes)].right_hand
                        ELSE _create_base_hand(Hundredths(50), Hundredths(50))
      to_hand        == IF to_keyframes # <<>> THEN to_keyframes[1].right_hand
                        ELSE _create_base_hand(Hundredths(50), Hundredths(50))
  IN  [k \in 1..total_frames |->
         LET frame_num == k - 1
             eased     == _ease_in_out_cubic(frame_num, Max(total_frames - 1, 1))
         IN  [frame_number      |-> frame_num,
              total_frames      |-> total_frames,
              timestamp         |-> frame_timestamp(start_time, frame_num),
              progress          |-> eased,
              sign              |-> "transition",
              right_hand        |-> _interpolate_landmarks(from_hand, to_hand, eased),
              left_hand         |-> None,
              facial_expression |-> generator.facial_expressions["neutral"],
              body_posture      |-> generator.body_postures["neutral"],
              motion_type       |-> "transition",
              two_hands         |-> FALSE]]

\* mutant: the entry is built after current_time has been advanced
schedule_entry_late(sign_name, start_time, duration, frame_start, n_frames) ==
  [sign |-> sign_name, start_time |-> start_time + duration,
   end_time |-> start_time + duration + duration,
   duration |-> duration, frame_start |-> frame_start, frame_count |-> n_frames]

\* mutant: frame_start is read after the frames of the sign have been appended
schedule_entry_after_extend(sign_name, start_time, duration, frame_start, n_frames) ==
  [sign |-> sign_name, start_time |-> start_time, end_time |-> start_time + duration,
   duration |-> duration, frame_start |-> frame_start + n_frames, frame_count |-> n_frames]

schedule_entry(sign_name, start_time, duration, frame_start, n_frames) ==
  [sign |-> sign_name, start_time |-> start_time, end_time |-> start_time + duration,
   duration |-> duration, frame_start |-> frame_start, frame_count |-> n_frames]

\* ------------------------------------------------------------------------
\* Inputs of a synthesis call: up to MaxSigns tokens; "Zebra" is not a key of
\* the repository
\* ------------------------------------------------------------------------
SignTokens == {"Hello", "Thank you", "Good night", "Cat", "A", "1", "Zebra"}

InputSigns == UNION { [1..n -> SignTokens] : n \in 0..MaxSigns }

\* Arguments of a repository call: every class label and an unknown name;
\* progress 0, 1 and the steps between
RepoNames == Range(db_class_labels) \cup {"Zebra"}

ProgressInputs == { (k * ProgressUnit) \div ProgressSteps : k \in 0..ProgressSteps }

\* Request threads of the Flask application, each inside one call of
\* generate_animation_sequence on up to MaxThreadSigns tokens
Threads == {"t1", "t2"}

ThreadInputs == UNION { [1..n -> {"Hello", "Zebra"}] : n \in 0..MaxThreadSigns }

\* Arguments of _interpolate_landmarks: the first n landmarks of two poses
LandmarkLengths == {0, 1, 2, 20, 21}

LandmarkLists(pose) == { SubSeq(pose, 1, n) : n \in LandmarkLengths }

\* Synthesis calls on every name of the repository and on an unknown name,
\* alone and followed by a second sign
VocabularyInputs == { <<n>> : n \in RepoNames } \cup { <<n, "A">> : n \in RepoNames }

\* A client that calls the normalizer and then the synthesizer
ClientTexts ==
  UNION { { str_join(<<" ">>, [i \in 1..n |-> Words[f[i]]]) : f \in [1..n -> DOMAIN Words] } :
          n \in 0..MaxClientWords }
  \cup { <<"s","h","o","w"," ","a","r","e"," ","y","o","u">> }

ClientSigns == { <<>>, <<"A">>, <<"A", "Zebra">> }

\* ------------------------------------------------------------------------
\* Initial states
\* ------------------------------------------------------------------------
EmptyResult(t) ==
  [original_text |-> t, preprocessed |-> <<>>, phrases_detected |-> <<>>, tokens |-> <<>>,
   lemmatized |-> <<>>, filtered |-> <<>>, isl_signs |-> <<>>]

EmptyAnimation(isl_signs) ==
  [signs |-> isl_signs, total_duration |-> 0, frames |-> <<>>, schedule |-> <<>>]

\* the module-level instances isl_database and animation_generator
Constructed ==
  /\ signs = _build_sign_database
  /\ generator = [config |-> config, facial_expressions |-> facial_expressions,
                  body_postures |-> body_postures]

NoNormalizerCall ==
  /\ NLTK_AVAILABLE = FALSE
  /\ text = <<>>
  /\ result = EmptyResult(<<>>)
  /\ remaining_text = <<>>
  /\ word_signs = <<>>
  /\ valid_signs = <<>>
  /\ pc = "idle"

NoSynthesisCall ==
  /\ animation_data = EmptyAnimation(<<>>)
  /\ current_time = 0
  /\ idx = 0
  /\ gpc = "idle"

NoRepositoryCall ==
  /\ query = [sign_name |-> "", progress |-> 0]
  /\ answer = None
  /\ rpc = "idle"

NoThreads == calls = <<>>

\* a call of process / map_to_isl on some text; no synthesis call
InitNLP ==
  /\ Constructed
  /\ NLTK_AVAILABLE \in BOOLEAN
  /\ text \in InputTexts
  /\ result = EmptyResult(text)
  /\ remaining_text = <<>>
  /\ word_signs = <<>>
  /\ valid_signs = <<>>
  /\ pc = "start"
  /\ NoSynthesisCall
  /\ NoRepositoryCall
  /\ NoThreads

\* a call of generate_animation_sequence on some token list; no normalizer call
InitGen ==
  /\ Constructed
  /\ NoNormalizerCall
  /\ animation_data \in { EmptyAnimation(s) : s \in InputSigns }
  /\ current_time = 0
  /\ idx = 0
  /\ gpc = "sign"
  /\ NoRepositoryCall
  /\ NoThreads

\* a call of get_sign or of interpolate_keyframes
InitRepo ==
  /\ Constructed
  /\ NoNormalizerCall
  /\ NoSynthesisCall
  /\ query \in [sign_name : RepoNames, progress : ProgressInputs]
  /\ answer = None
  /\ rpc = "call"
  /\ NoThreads

\* the locals of generate_animation_sequence after line 111
Locals(isl_signs) ==
  [animation_data |-> EmptyAnimation(isl_signs), current_time |-> 0, idx |-> 0, gpc |-> "sign"]

\* every thread has entered generate_animation_sequence on its own token list
InitThreads ==
  /\ Constructed
  /\ NoNormalizerCall
  /\ NoSynthesisCall
  /\ NoRepositoryCall
  /\ calls \in [Threads -> { Locals(s) : s \in ThreadInputs }]

\* a call of _interpolate_landmarks on two poses of any lengths
InitLandmarks ==
  /\ Constructed
  /\ NoNormalizerCall
  /\ NoSynthesisCall
  /\ query \in [start : LandmarkLists(_create_base_hand(Hundredths(50), Hundredths(50))),
                end : LandmarkLists(_create_base_hand(Hundredths(62), Hundredths(41))),
                progress : ProgressInputs]
  /\ answer = None
  /\ rpc = "call"
  /\ NoThreads

\* a call of generate_animation_sequence on one or two names of the repository
InitVocabulary ==
  /\ Constructed
  /\ NoNormalizerCall
  /\ animation_data \in { EmptyAnimation(s) : s \in VocabularyInputs }
  /\ current_time = 0
  /\ idx = 0
  /\ gpc = "sign"
  /\ NoRepositoryCall
  /\ NoThreads

\* a client about to call the normalizer
InitClient ==
  /\ Constructed
  /\ NLTK_AVAILABLE \in BOOLEAN
  /\ text \in ClientTexts
  /\ result = EmptyResult(text)
  /\ remaining_text = <<>>
  /\ word_signs = <<>>
  /\ valid_signs = <<>>
  /\ pc = "start"
  /\ NoSynthesisCall
  /\ NoRepositoryCall
  /\ NoThreads

\* ------------------------------------------------------------------------
\* NLPProcessor.process, one action per stage
\* ------------------------------------------------------------------------
Preprocess ==
  /\ pc = "start"
  /\ result' = [result EXCEPT !.preprocessed = preprocess_text(text)]
  /\ pc' = "preprocessed"
  /\ UNCHANGED <<NLTK_AVAILABLE, text, remaining_text, word_signs, valid_signs, gen_vars, shared_vars, repo_vars, calls>>

DetectPhrases ==
  /\ pc = "preprocessed"
  /\ LET r == detect_phrases(result.preprocessed)
     IN  /\ result' = [result EXCEPT !.phrases_detected = r.detected]
         /\ remaining_text' = r.remaining
  /\ pc' = "phrases"
  /\ UNCHANGED <<NLTK_AVAILABLE, text, word_signs, valid_signs, gen_vars, shared_vars, repo_vars, calls>>

Tokenize ==
  /\ pc = "phrases"
  /\ result' = [result EXCEPT !.tokens = tokenize(remaining_text)]
  /\ pc' = "tokens"
  /\ UNCHANGED <<NLTK_AVAILABLE, text, remaining_text, word_signs, valid_signs, gen_vars, shared_vars, repo_vars, calls>>

Lemmatize ==
  /\ pc = "tokens"
  /\ result' = [result EXCEPT !.lemmatized = lemmatize(NLTK_AVAILABLE, result.tokens)]
  /\ pc' = "lemmatized"
  /\ UNCHANGED <<NLTK_AVAILABLE, text, remaining_text, word_signs, valid_signs, gen_vars, shared_vars, repo_vars, calls>>

RemoveStopwords ==
  /\ pc = "lemmatized"
  /\ result' = [result EXCEPT !.filtered = remove_stopwords(NLTK_AVAILABLE, result.lemmatized)]
  /\ pc' = "filtered"
  /\ UNCHANGED <<NLTK_AVAILABLE, text, remaining_text, word_signs, valid_signs, gen_vars, shared_vars, repo_vars, calls>>

MapToSigns ==
  /\ pc = "filtered"
  /\ word_signs' = map_to_signs(result.filtered)
  /\ pc' = "mapped"
  /\ UNCHANGED <<NLTK_AVAILABLE, text, result, remaining_text, valid_signs, gen_vars, shared_vars, repo_vars, calls>>

Reorder ==
  /\ pc = "mapped"
  /\ result' = [result EXCEPT !.isl_signs = reorder(result.phrases_detected, word_signs)]
  /\ pc' = "done"
  /\ UNCHANGED <<NLTK_AVAILABLE, text, remaining_text, word_signs, valid_signs, gen_vars, shared_vars, repo_vars, calls>>

\* ISLMapper.map_to_isl: the early return on a blank text ...
MapToIslBlank ==
  /\ pc = "start"
  /\ str_strip(text) = <<>>
  /\ valid_signs' = <<>>
  /\ pc' = "returned"
  /\ UNCHANGED <<NLTK_AVAILABLE, text, result, remaining_text, word_signs, gen_vars, shared_vars, repo_vars, calls>>

\* ... and the validity filter applied to the result of process
MapToIslValidate ==
  /\ pc = "done"
  /\ str_strip(text) # <<>>
  /\ valid_signs' = valid_filter(result.isl_signs)
  /\ pc' = "returned"
  /\ UNCHANGED <<NLTK_AVAILABLE, text, result, remaining_text, word_signs, gen_vars, shared_vars, repo_vars, calls>>

NextNLP ==
  \/ Preprocess
  \/ DetectPhrases
  \/ Tokenize
  \/ Lemmatize
  \/ RemoveStopwords
  \/ MapToSigns
  \/ Reorder
  \/ MapToIslBlank
  \/ MapToIslValidate

\* ------------------------------------------------------------------------
\* AnimationGenerator.generate_animation_sequence, one action per block
\* ------------------------------------------------------------------------
\* mutant: the test for the last sign is off by one, so no transition block
\* precedes the last sign
EmitSignFrames_early_last ==
  /\ gpc = "sign"
  /\ idx < Len(animation_data.signs)
  /\ LET sign_name   == animation_data.signs[idx + 1]
         sign_data   == get_sign(sign_name)
         duration    == _calculate_sign_duration(sign_data)
         sign_frames == _generate_sign_frames(sign_name, sign_data, duration, current_time)
     IN  /\ animation_data' =
              [animation_data EXCEPT
                 !.schedule = Append(@, schedule_entry(sign_name, current_time, duration,
                                                       Len(animation_data.frames),
                                                       Len(sign_frames))),
                 !.frames = @ \o sign_frames]
         /\ current_time' = current_time + duration
  /\ IF idx < Len(animation_data.signs) - 2
     THEN gpc' = "transition" /\ idx' = idx
     ELSE gpc' = "sign" /\ idx' = idx + 1
  /\ UNCHANGED <<nlp_vars, shared_vars, repo_vars, calls>>

\* steps 1-4 of the loop body: the frames and the schedule entry of sign idx
EmitSignFrames ==
  /\ gpc = "sign"
  /\ idx < Len(animation_data.signs)
  /\ LET sign_name   == animation_data.signs[idx + 1]
         sign_data   == get_sign(sign_name)
         duration    == _calculate_sign_duration(sign_data)
         sign_frames == _generate_sign_frames(sign_name, sign_data, duration, current_time)
     IN  /\ animation_data' =
              [animation_data EXCEPT
                 !.schedule = Append(@, schedule_entry(sign_name, current_time, duration,
                                                       Len(animation_data.frames),
                                                       Len(sign_frames))),
                 !.frames = @ \o sign_frames]
         /\ current_time' = current_time + duration
  /\ IF idx < Len(animation_data.signs) - 1
     THEN gpc' = "transition" /\ idx' = idx
     ELSE gpc' = "sign" /\ idx' = idx + 1
  /\ UNCHANGED <<nlp_vars, shared_vars, repo_vars, calls>>

\* the transition block after a sign that is not the last
EmitTransitionFrames ==
  /\ gpc = "transition"
  /\ LET transition_frames ==
           _generate_transition_frames(get_sign(animation_data.signs[idx + 1]),
                                       get_sign(animation_data.signs[idx + 2]),
                                       current_time)
     IN  animation_data' = [animation_data EXCEPT !.frames = @ \o transition_frames]
  /\ current_time' = current_time + generator.config.transition_duration
  /\ idx' = idx + 1
  /\ gpc' = "sign"
  /\ UNCHANGED <<nlp_vars, shared_vars, repo_vars, calls>>

\* mutant: the total duration is never less than the minimum sign duration
ReturnAnimation_min_duration ==
  /\ gpc = "sign"
  /\ idx >= Len(animation_data.signs)
  /\ animation_data' = [animation_data EXCEPT
                          !.total_duration = Max(current_time,
                                                 generator.config.min_sign_duration)]
  /\ gpc' = "done"
  /\ UNCHANGED <<current_time, idx, nlp_vars, shared_vars, repo_vars, calls>>

\* after the loop: animation_data['total_duration'] = current_time
ReturnAnimation ==
  /\ gpc = "sign"
  /\ idx >= Len(animation_data.signs)
  /\ animation_data' = [animation_data EXCEPT !.total_duration = current_time]
  /\ gpc' = "done"
  /\ UNCHANGED <<current_time, idx, nlp_vars, shared_vars, repo_vars, calls>>

NextGen ==
  \/ EmitSignFrames
  \/ EmitTransitionFrames
  \/ ReturnAnimation


\* ------------------------------------------------------------------------
\* A client's call of generate_animation_sequence after its normalizer call
\* ------------------------------------------------------------------------
CallGenerate ==
  /\ pc \in {"done", "returned"}
  /\ gpc = "idle"
  /\ \E isl_signs \in ClientSigns : animation_data' = EmptyAnimation(isl_signs)
  /\ current_time' = 0
  /\ idx' = 0
  /\ gpc' = "sign"
  /\ UNCHANGED <<nlp_vars, shared_vars, repo_vars, calls>>

NextClient ==
  \/ NextNLP
  \/ CallGenerate
  \/ NextGen

\* ------------------------------------------------------------------------
\* Calls of the repository
\* ------------------------------------------------------------------------
GetSign ==
  /\ rpc = "call"
  /\ answer' = get_sign(query.sign_name)
  /\ rpc' = "sign"
  /\ UNCHANGED <<nlp_vars, gen_vars, shared_vars, query, calls>>

InterpolateKeyframes ==
  /\ rpc = "call"
  /\ answer' = interpolate_keyframes(query.sign_name, query.progress)
  /\ rpc' = "keyframe"
  /\ UNCHANGED <<nlp_vars, gen_vars, shared_vars, query, calls>>

NextRepo ==
  \/ GetSign
  \/ InterpolateKeyframes

InterpolateLandmarks ==
  /\ rpc = "call"
  /\ answer' = _interpolate_landmarks(query.start, query.end, query.progress)
  /\ rpc' = "landmarks"
  /\ UNCHANGED <<nlp_vars, gen_vars, shared_vars, query, calls>>

\* ------------------------------------------------------------------------
\* generate_animation_sequence run by several threads on the shared
\* generator and repository: one step of one thread at a time
\* ------------------------------------------------------------------------
\* steps 1-4 of the loop body on the locals l of a call
sign_block(l) ==
  LET sign_name   == l.animation_data.signs[l.idx + 1]
      sign_data   == get_sign(sign_name)
      duration    == _calculate_sign_duration(sign_data)
      sign_frames == _generate_sign_frames(sign_name, sign_data, duration, l.current_time)
      last        == ~(l.idx < Len(l.animation_data.signs) - 1)
  IN  [animation_data |->
         [l.animation_data EXCEPT
            !.schedule = Append(@, schedule_entry(sign_name, l.current_time, duration,
                                                  Len(l.animation_data.frames),
                                                  Len(sign_frames))),
            !.frames = @ \o sign_frames],
       current_time |-> l.current_time + duration,
       idx |-> IF last THEN l.idx + 1 ELSE l.idx,
       gpc |-> IF last THEN "sign" ELSE "transition"]

\* the transition block after a sign that is not the last
transition_block(l) ==
  LET transition_frames ==
        _generate_transition_frames(get_sign(l.animation_data.signs[l.idx + 1]),
                                    get_sign(l.animation_data.signs[l.idx + 2]),
                                    l.current_time)
  IN  [animation_data |-> [l.animation_data EXCEPT !.frames = @ \o transition_frames],
       current_time |-> l.current_time + generator.config.transition_duration,
       idx |-> l.idx + 1,
       gpc |-> "sign"]

\* after the loop
return_block(l) ==
  [l EXCEPT !.animation_data = [@ EXCEPT !.total_duration = l.current_time], !.gpc = "done"]

\* mutant: the clock is an attribute of the shared generator
ThreadSignFrames_shared_clock(t) ==
  /\ calls[t].gpc = "sign"
  /\ calls[t].idx < Len(calls[t].animation_data.signs)
  /\ LET next == sign_block([calls[t] EXCEPT !.current_time = current_time])
     IN  /\ calls' = [calls EXCEPT ![t] = next]
         /\ current_time' = next.current_time
  /\ UNCHANGED <<nlp_vars, animation_data, idx, gpc, shared_vars, repo_vars>>

ThreadSignFrames(t) ==
  /\ calls[t].gpc = "sign"
  /\ calls[t].idx < Len(calls[t].animation_data.signs)
  /\ calls' = [calls EXCEPT ![t] = sign_block(@)]
  /\ UNCHANGED <<nlp_vars, gen_vars, shared_vars, repo_vars>>

ThreadTransitionFrames(t) ==
  /\ calls[t].gpc = "transition"
  /\ calls' = [calls EXCEPT ![t] = transition_block(@)]
  /\ UNCHANGED <<nlp_vars, gen_vars, shared_vars, repo_vars>>

ThreadReturn(t) ==
  /\ calls[t].gpc = "sign"
  /\ calls[t].idx >= Len(calls[t].animation_data.signs)
  /\ calls' = [calls EXCEPT ![t] = return_block(@)]
  /\ UNCHANGED <<nlp_vars, gen_vars, shared_vars, repo_vars>>

NextThreads ==
  \E t \in Threads :
    \/ ThreadSignFrames(t)
    \/ ThreadTransitionFrames(t)
    \/ ThreadReturn(t)

\* ------------------------------------------------------------------------
\* Specifications
\* ------------------------------------------------------------------------
Init == InitNLP
Next == NextNLP
Spec == Init /\ [][Next]_vars

SpecGen == InitGen /\ [][NextGen]_vars

SpecRepo == InitRepo /\ [][NextRepo]_vars

SpecThreads == InitThreads /\ [][NextThreads]_vars

SpecClient == InitClient /\ [][NextClient]_vars

SpecLandmarks == InitLandmarks /\ [][InterpolateLandmarks]_vars

SpecVocabulary == InitVocabulary /\ [][NextGen]_vars

\* ------------------------------------------------------------------------
\* Properties of the text normalizer (specification Spec)
\* ------------------------------------------------------------------------
TextHelloThankYou ==
  <<"H","e","l","l","o",","," ","t","h","a","n","k"," ","y","o","u">>
TextGoodMorningHowAreYou ==
  <<"g","o","o","d"," ","m","o","r","n","i","n","g",","," ","h","o","w"," ","a","r","e"," ","y","o","u">>
TextHowAreYouToday ==
  <<"h","o","w"," ","a","r","e"," ","y","o","u"," ","t","o","d","a","y">>

RECURSIVE Flatten(_)
Flatten(ss) == IF ss = <<>> THEN <<>> ELSE Head(ss) \o Flatten(Tail(ss))

RECURSIVE IsSubsequence(_, _)
IsSubsequence(a, b) ==
  IF a = <<>> THEN TRUE
  ELSE IF b = <<>> THEN FALSE
  ELSE IF Head(a) = Head(b) THEN IsSubsequence(Tail(a), Tail(b))
  ELSE IsSubsequence(a, Tail(b))

NonBlank(s) == Cardinality({ i \in DOMAIN s : ~IsSpace(s[i]) })

HasMapping(token) == token \in DOMAIN word_to_sign

NumMapped(tokens) == Cardinality({ i \in DOMAIN tokens : HasMapping(tokens[i]) })

NumMappedTo(sign, tokens) ==
  Cardinality({ i \in DOMAIN tokens : HasMapping(tokens[i]) /\ word_to_sign[tokens[i]] = sign })

InVocabulary(c) == c \in Range(class_labels)

\* the letter signs an unmapped token stands for
SpellOf(token) ==
  IF ~HasMapping(token) /\ Len(token) > 2
  THEN SelectSeq(str_upper(token), InVocabulary)
  ELSE <<>>

SpelledSigns(tokens) == Flatten([i \in DOMAIN tokens |-> SpellOf(tokens[i])])

PronounSigns == {"I", "You", "He", "She", "It"}

PhraseKey(sign) == (CHOOSE i \in DOMAIN phrases : phrases[i][2] = sign)

PhraseKeyOf(sign) == phrases[PhraseKey(sign)][1]

IsTimeSign(s) ==
  s \in {"Today", "Monday", "Tuesday", "Wednesday", "Thursday", "Friday", "Saturday", "Sunday"}

IsOtherSign(s) == ~IsTimeSign(s)

\* C1: process("Hello, thank you") returns exactly <<Hello, Thank you>>: the
\* word sign that precedes the phrase in the text precedes it in the output.
C1_HelloBeforeThankYou ==
  (pc = "done" /\ text = TextHelloThankYou)
    => result.isl_signs = <<"Hello", "Thank you">>

\* C2 (as stated): every token with a mapping emits its sign at every
\* occurrence, so the number of signs emitted by map_to_signs is the number
\* of mapped tokens plus the number of fingerspelled letters.
C2_EveryMappedTokenEmits ==
  pc = "mapped"
    => Len(word_signs) = NumMapped(result.filtered) + Len(SpelledSigns(result.filtered))

\* C2 (amended): a pronoun sign (I, You, He, She, It) is emitted once per
\* token that maps to it; any other sign is emitted by mapped tokens at most
\* once, namely exactly once when some token maps to it and no fingerspelled
\* letter equals it, and never when no token maps to it.
C2_PronounsRepeatOthersOnce ==
  pc = "mapped"
    => LET spelled == SpelledSigns(result.filtered)
           emitted == Range(word_signs) \cup
                      { word_to_sign[t] : t \in { u \in Range(result.filtered) : HasMapping(u) } }
       IN  \A s \in emitted :
             LET m == Count(s, word_signs) - Count(s, spelled)
                 k == NumMappedTo(s, result.filtered)
             IN  IF s \in PronounSigns
                 THEN m = k
                 ELSE /\ m \in {0, 1}
                      /\ k = 0 => m = 0
                      /\ (k > 0 /\ Count(s, spelled) = 0) => m = 1

C2_Witness ==
  /\ pc = "mapped"
  /\ result.filtered = << <<"c","a","t">>, <<"c","a","t">>, <<"y","o","u">> >>
  /\ word_signs = <<"Cat", "You">>

\* C3: phrases are detected longest first, each detected phrase is one token
\* of phrases_detected, and its characters are gone from the text that is
\* tokenized; process("good morning, how are you") yields exactly
\* <<Good Morning, How are you>>.
C3_PhrasesDetectedAsUnits ==
  /\ pc \in {"phrases", "tokens", "lemmatized", "filtered", "mapped", "done"}
       => LET d == result.phrases_detected
          IN  /\ \A i, j \in DOMAIN d :
                   i < j => Len(PhraseKeyOf(d[i])) > Len(PhraseKeyOf(d[j]))
              /\ NonBlank(remaining_text)
                   + SumSeq([i \in DOMAIN d |-> NonBlank(PhraseKeyOf(d[i]))])
                   <= NonBlank(result.preprocessed)
  /\ pc \in {"tokens", "lemmatized", "filtered", "mapped", "done"}
       => SumSeq([i \in DOMAIN result.tokens |-> Len(result.tokens[i])])
            = NonBlank(remaining_text)
  /\ (pc = "done" /\ text = TextGoodMorningHowAreYou)
       => result.isl_signs = <<"Good Morning", "How are you">>

C3_Witness ==
  /\ pc = "done"
  /\ text = TextGoodMorningHowAreYou
  /\ result.phrases_detected = <<"Good Morning", "How are you">>
  /\ result.tokens = <<>>
  /\ result.isl_signs = <<"Good Morning", "How are you">>

\* C4: the final list is the stable partition of phrase tokens followed by
\* word tokens into time signs first and the other signs after them;
\* process("how are you today") yields exactly <<Today, How are you>>.
C4_StablePartition ==
  /\ pc \in {"done", "returned"}
       => LET combined == result.phrases_detected \o word_signs
          IN  result.isl_signs =
                SelectSeq(combined, IsTimeSign) \o SelectSeq(combined, IsOtherSign)
  /\ (pc = "done" /\ text = TextHowAreYouToday)
       => result.isl_signs = <<"Today", "How are you">>

C4_Witness ==
  /\ pc = "done"
  /\ result.phrases_detected = <<"How are you">>
  /\ word_signs = <<"Cat", "Today">>
  /\ result.isl_signs = <<"Today", "How are you", "Cat">>

\* C5: a token without a mapping emits, in character order, one sign per
\* character whose uppercase form is a class label when it is longer than 2,
\* and nothing when its length is 2 or less; "xyz" yields <<X, Y, Z>>.
C5_Fingerspelling ==
  pc = "mapped"
    => LET spelled == SpelledSigns(result.filtered)
           Unmapped(s) == NumMappedTo(s, result.filtered) = 0
       IN  /\ SelectSeq(word_signs, Unmapped) = SelectSeq(spelled, Unmapped)
           /\ NumMapped(result.filtered) = 0 => word_signs = spelled
           /\ Len(word_signs) <= NumMapped(result.filtered) + Len(spelled)
           /\ result.filtered = << <<"x","y","z">> >> => word_signs = <<"X", "Y", "Z">>

C5_Witness ==
  /\ pc = "mapped"
  /\ result.filtered = << <<"x","_","z">>, <<"w","e">>, <<"x","y","z">> >>
  /\ word_signs = <<"X", "Z", "X", "Y", "Z">>

\* C6: remove_stopwords drops exactly the tokens that are stop words without
\* a mapping, never drops a word of the allow-list, and keeps the order.
C6_StopwordRemoval ==
  pc \in {"filtered", "mapped", "done"}
    => LET L == result.lemmatized
           F == result.filtered
       IN  /\ \A t \in keep_words : Count(t, F) = Count(t, L)
           /\ \A t \in Range(L) :
                Count(t, F) = IF t \in stop_words(NLTK_AVAILABLE) /\ ~HasMapping(t)
                              THEN 0 ELSE Count(t, L)
           /\ IsSubsequence(F, L)

C6_Witness ==
  /\ pc = "filtered"
  /\ result.lemmatized = << <<"t","h","e">>, <<"a","r","e">>, <<"y","o","u">> >>
  /\ result.filtered = << <<"a","r","e">>, <<"y","o","u">> >>

\* C7: every token of process(text)['isl_signs'] is a class label, passes the
\* validity filter of map_to_isl and has a stored definition, so get_sign
\* does not fall back for it.
C7_OutputInVocabulary ==
  /\ pc \in {"done", "returned"}
       => \A i \in DOMAIN result.isl_signs :
            LET s == result.isl_signs[i]
            IN  /\ s \in Range(class_labels)
                /\ s \in class_labels_set
                /\ s \in DOMAIN _build_sign_database
                /\ get_sign(s) = _build_sign_database[s]
  /\ pc = "returned" => valid_signs = result.isl_signs

C7_Witness ==
  /\ pc = "returned"
  /\ result.filtered = << <<"x","_","z">>, <<"c","a","t">> >>
  /\ valid_signs = <<"Thank you", "X", "Z", "Cat">>

\* ------------------------------------------------------------------------
\* Properties of the motion synthesizer (specification SpecGen)
\* ------------------------------------------------------------------------
SignDurations ==
  [k \in DOMAIN animation_data.signs |->
     _calculate_sign_duration(get_sign(animation_data.signs[k]))]

\* frames[from + 1 .. from + count] is one block of frames of the given sign,
\* numbered from 0
IsBlock(from, count, sign) ==
  /\ count >= 1
  /\ from + count <= Len(animation_data.frames)
  /\ \A j \in 1..count :
       LET f == animation_data.frames[from + j]
       IN  f.sign = sign /\ f.frame_number = j - 1 /\ f.total_frames = count

\* C8: for n >= 1 signs the total duration is the sum of the sign durations
\* plus (n-1) * 300 ms, and it equals the timestamp of the last frame plus
\* one frame period (1000/30 ms) to within one frame period.
C8_TotalDuration ==
  (gpc = "done" /\ Len(animation_data.signs) >= 1)
    => LET n    == Len(animation_data.signs)
           last == animation_data.frames[Len(animation_data.frames)]
       IN  /\ animation_data.total_duration = SumSeq(SignDurations) + (n - 1) * 300
           /\ animation_data.frames # <<>>
           /\ Abs(animation_data.total_duration * 30 - (last.timestamp + 1000)) <= 1000

C8_Witness ==
  /\ gpc = "done"
  /\ animation_data.signs = <<"Hello", "A", "Zebra">>
  /\ animation_data.total_duration = 2100 + 300 + 800 + 300 + 1300
  /\ animation_data.frames[Len(animation_data.frames)].timestamp = 4800 * 30 - 1000

\* C9: the schedule is continuous: the first entry starts at 0, every entry
\* ends at its start plus its duration, the next entry starts 300 ms after
\* the end of the previous one, and the last entry ends at the total duration.
C9_ScheduleContinuity ==
  LET s == animation_data.schedule
  IN  /\ s # <<>> => s[1].start_time = 0
      /\ \A k \in DOMAIN s : s[k].end_time = s[k].start_time + s[k].duration
      /\ \A k \in 1..(Len(s) - 1) : s[k].end_time + 300 = s[k + 1].start_time
      /\ (gpc = "done" /\ s # <<>>) => s[Len(s)].end_time = animation_data.total_duration

C9_Witness ==
  /\ gpc = "done"
  /\ Len(animation_data.schedule) = 3
  /\ animation_data.schedule[2].start_time = animation_data.schedule[1].end_time + 300
  /\ animation_data.schedule[3].start_time = animation_data.schedule[2].end_time + 300
  /\ animation_data.schedule[3].end_time = animation_data.total_duration
  /\ animation_data.total_duration > 0

\* C10: the frames come as the block of sign 1, a transition block, the block
\* of sign 2, ..., the block of sign n: exactly one transition block between
\* two consecutive sign blocks, none before the first sign, none after the
\* last and never two in a row; the schedule has one entry per input token,
\* in input order.
C10_BlockOrder ==
  LET tokens == animation_data.signs
      s      == animation_data.schedule
      m      == Len(s)
      total  == Len(animation_data.frames)
      end(k) == s[k].frame_start + s[k].frame_count
  IN  /\ m <= Len(tokens)
      /\ gpc = "done" => m = Len(tokens)
      /\ \A k \in DOMAIN s : s[k].sign = tokens[k] /\ s[k].sign # "transition"
      /\ \A k \in DOMAIN s : IsBlock(s[k].frame_start, s[k].frame_count, tokens[k])
      /\ m = 0 => total = 0
      /\ m >= 1 => s[1].frame_start = 0
      /\ \A k \in 1..(m - 1) : IsBlock(end(k), s[k + 1].frame_start - end(k), "transition")
      /\ m >= 1 =>
           IF gpc = "sign" /\ idx < Len(tokens)
           THEN IsBlock(end(m), total - end(m), "transition")
           ELSE total = end(m)

C10_Witness ==
  /\ gpc = "done"
  /\ Len(animation_data.signs) = 3
  /\ Len(animation_data.schedule) = 3
  /\ Cardinality({ j \in DOMAIN animation_data.frames :
                     animation_data.frames[j].sign = "transition" }) = 18
  /\ animation_data.frames[Len(animation_data.frames)].sign = animation_data.signs[3]



\* ------------------------------------------------------------------------
\* Properties of the duration policy and of the frame blocks (SpecGen)
\* ------------------------------------------------------------------------
\* the sign types and motion types of the repository and of the fallback
SignTypes == { signs[n].type : n \in DOMAIN signs } \cup {_get_default_sign.type}
MotionTypes == { signs[n].motion_type : n \in DOMAIN signs } \cup {_get_default_sign.motion_type}

\* clamp(base(sign_type) + adj(motion_type), 800, 2500)
ClampedDuration(sign_type, motion) ==
  LET base == CASE sign_type = "letter"   -> 800
                [] sign_type = "number"   -> 1000
                [] sign_type = "phrase"   -> 2000
                [] sign_type = "animated" -> 1800
                [] OTHER                  -> 1500
      adj  == CASE motion \in {"circular", "wave", "alternating"} -> 300
                [] motion = "static"                              -> -200
                [] OTHER                                          -> 0
      sum  == base + adj
  IN  IF sum < 800 THEN 800 ELSE IF sum > 2500 THEN 2500 ELSE sum

\* C11: the duration of a sign is clamp(base(sign_type) + adj(motion_type),
\* 800, 2500) ms with base letter 800, number 1000, phrase 2000, animated
\* 1800, other 1500 and adj +300 for circular/wave/alternating, -200 for
\* static, 0 otherwise; every scheduled duration lies in [800, 2500] and a
\* letter sign with static motion gets exactly 800 ms.
C11_DurationPolicy ==
  /\ \A t \in SignTypes : \A m \in MotionTypes :
       LET d == _calculate_sign_duration([type |-> t, motion_type |-> m])
       IN  /\ d = ClampedDuration(t, m)
           /\ d >= 800 /\ d <= 2500
           /\ (t = "letter" /\ m = "static") => d = 800
  /\ \A k \in DOMAIN animation_data.schedule :
       LET e         == animation_data.schedule[k]
           sign_data == get_sign(e.sign)
       IN  /\ e.duration = ClampedDuration(sign_data.type, sign_data.motion_type)
           /\ e.duration >= 800 /\ e.duration <= 2500
           /\ (sign_data.type = "letter" /\ sign_data.motion_type = "static")
                => e.duration = 800

C11_Witness ==
  /\ gpc = "done"
  /\ animation_data.signs = <<"A", "Good night", "Hello">>
  /\ get_sign("A").type = "letter" /\ get_sign("A").motion_type = "static"
  /\ animation_data.schedule[1].duration = 800
  /\ animation_data.schedule[2].duration = 2000
  /\ animation_data.schedule[3].duration = 2100

\* the durations the duration policy can return
PolicyDurations ==
  { _calculate_sign_duration([type |-> t, motion_type |-> m]) :
      t \in SignTypes \cup {"letter", "number", "phrase", "animated", "word"},
      m \in MotionTypes \cup {"circular", "wave", "alternating", "static", "linear"} }

\* round(a / b) for a, b > 0, a tie going to the even neighbour
RoundDiv(a, b) ==
  LET q == a \div b
      r == a % b
  IN  IF 2 * r < b THEN q
      ELSE IF 2 * r > b THEN q + 1
      ELSE IF q % 2 = 0 THEN q ELSE q + 1

\* C12: for every duration the duration policy can return, the number of
\* frames of the sign is max(round(duration_ms / 1000 * 30), 5), 45 frames
\* for 1500 ms; the frames are numbered 0 .. total_frames - 1 and each
\* carries that total_frames value.
C12_FrameCount ==
  /\ \A d \in PolicyDurations : frame_count(d, 5) = Max(RoundDiv(d * 30, 1000), 5)
  /\ 1500 \in PolicyDurations /\ frame_count(1500, 5) = 45
  /\ \A k \in DOMAIN animation_data.schedule :
       LET e == animation_data.schedule[k]
       IN  /\ e.duration \in PolicyDurations
           /\ e.frame_count = Max(RoundDiv(e.duration * 30, 1000), 5)
           /\ IsBlock(e.frame_start, e.frame_count, e.sign)

C12_Witness ==
  /\ gpc = "done"
  /\ animation_data.signs = <<"Hello", "Zebra", "1">>
  /\ animation_data.schedule[1].frame_count = 63
  /\ animation_data.schedule[2].frame_count = 39
  /\ animation_data.schedule[3].frame_count = 24
  /\ animation_data.frames[63].frame_number = 62
  /\ animation_data.frames[63].total_frames = 63

\* the pose interpolated between the keyframes of a sign at a progress, as
\* interpolate_keyframes gives it
BasePose(sign_data, progress) ==
  IF Len(sign_data.keyframes) >= 2
  THEN _interpolate_landmarks(sign_data.keyframes[1].right_hand,
                              sign_data.keyframes[2].right_hand, progress)
  ELSE sign_data.keyframes[1].right_hand

\* the motion deformation of a sign applied to one pose
Deformed(sign_data, pose, progress) ==
  motion_patterns(sign_data.motion_type,
                  << [frame |-> 0, right_hand |-> pose, left_hand |-> None] >>,
                  progress, sign_data).right_hand

\* C13: for every sign and every frame of it, the right-hand pose is the
\* motion-type deformation applied on top of the pose interpolated between
\* the sign's keyframes at the eased progress: with two keyframes the base
\* pose moves from keyframe[0] to keyframe[1], and neither the deformation
\* nor the interpolation replaces the other.
C13_DeformationOnInterpolatedPose ==
  \A j \in DOMAIN animation_data.frames :
    LET f         == animation_data.frames[j]
        sign_data == get_sign(f.sign)
    IN  f.sign # "transition"
          => f.right_hand = Deformed(sign_data, BasePose(sign_data, f.progress), f.progress)

\* frames[from + 1 .. from + count] is a transition block from the last
\* keyframe of from_sign to the first keyframe of to_sign
IsTransitionBlock(from, count, from_sign, to_sign) ==
  LET from_hand == from_sign.keyframes[Len(from_sign.keyframes)].right_hand
      to_hand   == to_sign.keyframes[1].right_hand
  IN  /\ count = 9
      /\ count >= 3
      /\ IsBlock(from, count, "transition")
      /\ animation_data.frames[from + 1].right_hand = from_hand
      /\ animation_data.frames[from + count].right_hand = to_hand
      /\ (animation_data.frames[from + count].timestamp + 1000)
           - animation_data.frames[from + 1].timestamp = 300 * 30
      /\ \A j \in 1..count :
           LET f == animation_data.frames[from + j]
           IN  /\ f.progress = _ease_in_out_cubic(j - 1, count - 1)
               /\ f.right_hand = _interpolate_landmarks(from_hand, to_hand, f.progress)
               /\ f.left_hand = None
               /\ f.facial_expression = generator.facial_expressions["neutral"]
               /\ f.facial_expression = [eyebrows |-> 0, mouth |-> "closed", eyes |-> "open"]
               /\ f.body_posture = generator.body_postures["neutral"]
               /\ f.body_posture = [shoulder_rotation |-> 0, torso_tilt |-> 0, head_tilt |-> 0]

C15_TwoHandsFramesHaveLeftHand ==
  \A j \in DOMAIN animation_data.frames :
    LET f == animation_data.frames[j]
    IN  (f.sign # "transition" /\ get_sign(f.sign).two_hands) => f.left_hand # None

\* C16: get_sign returns the stored definition of a token of the repository
\* and, for any other token, the fallback definition (one base-hand
\* keyframe, static motion, 'question' facial expression, neutral body
\* region); a synthesis call with an unknown token completes and gives the
\* token its own schedule entry and frames.
C16_UnknownTokenFallback ==
  /\ \A n \in DOMAIN signs : get_sign(n) = signs[n] /\ get_sign(n) = _build_sign_database[n]
  /\ \A n \in SignTokens \ DOMAIN signs :
       LET d == get_sign(n)
       IN  /\ Len(d.keyframes) = 1
           /\ d.keyframes[1].right_hand = _create_base_hand(Hundredths(50), Hundredths(50))
           /\ d.motion_type = "static"
           /\ d.facial_expression = "question"
           /\ d.body_region = "neutral"
           /\ \A k \in DOMAIN signs : d # signs[k]
  /\ gpc = "done" => Len(animation_data.schedule) = Len(animation_data.signs)
  /\ \A k \in DOMAIN animation_data.schedule :
       LET e == animation_data.schedule[k]
       IN  (animation_data.signs[k] \notin DOMAIN signs)
             => /\ e.sign = animation_data.signs[k]
                /\ e.duration = 1300
                /\ e.frame_count = 39
                /\ IsBlock(e.frame_start, e.frame_count, e.sign)
                /\ \A j \in 1..e.frame_count :
                     LET f == animation_data.frames[e.frame_start + j]
                     IN  /\ f.right_hand = _create_base_hand(Hundredths(50), Hundredths(50))
                         /\ f.facial_expression = generator.facial_expressions["question"]
                         /\ f.motion_type = "static"

C16_Witness ==
  /\ gpc = "done"
  /\ animation_data.signs = <<"A", "Zebra", "Cat">>
  /\ "Zebra" \notin DOMAIN signs
  /\ animation_data.schedule[2].sign = "Zebra"
  /\ animation_data.schedule[2].frame_count = 39
  /\ animation_data.frames[animation_data.schedule[2].frame_start + 1].sign = "Zebra"
  /\ animation_data.schedule[3].sign = "Cat"

\* ------------------------------------------------------------------------
\* Properties of the sign repository (specification SpecRepo)
\* ------------------------------------------------------------------------
\* the published vocabulary: the class labels of the repository, of the
\* normalizer and of the mapper
PublishedVocabulary == Range(db_class_labels) \cup Range(class_labels) \cup class_labels_set

\* a stored definition with one or two keyframes of 21-landmark hand poses
IsWellFormedSign(sign_data) ==
  /\ \E n \in DOMAIN signs : sign_data = signs[n]
  /\ sign_data # _get_default_sign
  /\ sign_data.name # "Unknown"
  /\ Len(sign_data.keyframes) \in {1, 2}
  /\ \A k \in DOMAIN sign_data.keyframes :
       /\ Len(sign_data.keyframes[k].right_hand) = 21
       /\ sign_data.keyframes[k].left_hand # None
            => Len(sign_data.keyframes[k].left_hand) = 21

\* C17: for every token of the published vocabulary (class_labels) get_sign
\* returns a stored, non-fallback definition whose keyframes list has length
\* 1 or 2 and in which every hand pose (right hand, and left hand when
\* present) has exactly 21 landmarks.
C17_VocabularyWellFormed ==
  /\ \A token \in PublishedVocabulary :
       /\ token \in DOMAIN signs
       /\ IsWellFormedSign(get_sign(token))
       /\ get_sign(token).name = token
  /\ (rpc = "sign" /\ query.sign_name \in PublishedVocabulary) => IsWellFormedSign(answer)

C17_Witness ==
  /\ rpc = "sign"
  /\ query.sign_name = "Parent"
  /\ answer = signs["Parent"]
  /\ Len(answer.keyframes) = 1
  /\ Len(answer.keyframes[1].right_hand) = 21
  /\ answer.keyframes[1].left_hand # None
  /\ Len(answer.keyframes[1].left_hand) = 21
  /\ Len(signs["Hello"].keyframes) = 2
  /\ Cardinality(PublishedVocabulary) = 89

\* the names of the signs with two keyframes
TwoKeyframeSigns == { n \in DOMAIN signs : Len(signs[n].keyframes) = 2 }

\* C20: boundary law of the interpolation primitive: for the two keyframe
\* poses a, b of every two-keyframe sign, _interpolate_landmarks(a, b, 0) is
\* a and _interpolate_landmarks(a, b, 1) is b, landmark by landmark and
\* coordinate by coordinate.
C20_InterpolationBoundary ==
  /\ \A n \in TwoKeyframeSigns :
       LET a == signs[n].keyframes[1].right_hand
           b == signs[n].keyframes[2].right_hand
           at0 == _interpolate_landmarks(a, b, 0)
           at1 == _interpolate_landmarks(a, b, ProgressUnit)
       IN  /\ Len(at0) = Len(a) /\ Len(at1) = Len(b)
           /\ \A i \in DOMAIN a :
                /\ at0[i].x = a[i].x /\ at0[i].y = a[i].y /\ at0[i].z = a[i].z
                /\ at1[i].x = b[i].x /\ at1[i].y = b[i].y /\ at1[i].z = b[i].z
  /\ (rpc = "keyframe" /\ query.sign_name \in TwoKeyframeSigns)
       => /\ query.progress = 0
               => answer.right_hand = signs[query.sign_name].keyframes[1].right_hand
          /\ query.progress = ProgressUnit
               => answer.right_hand = signs[query.sign_name].keyframes[2].right_hand

C20_Witness ==
  /\ rpc = "keyframe"
  /\ query.sign_name = "Hello"
  /\ query.progress = ProgressUnit
  /\ "Hello" \in TwoKeyframeSigns
  /\ Cardinality(TwoKeyframeSigns) = 8
  /\ answer.right_hand = signs["Hello"].keyframes[2].right_hand
  /\ answer.right_hand # signs["Hello"].keyframes[1].right_hand

\* ------------------------------------------------------------------------
\* Properties of interleaved synthesis calls (specification SpecThreads)
\* ------------------------------------------------------------------------
\* the locals of a call when it returns, the call running on its own from
\* the locals l
RECURSIVE RunAlone(_)
RunAlone(l) ==
  IF l.gpc = "done" THEN l
  ELSE IF l.gpc = "transition" THEN RunAlone(transition_block(l))
  ELSE IF l.idx < Len(l.animation_data.signs) THEN RunAlone(sign_block(l))
  ELSE RunAlone(return_block(l))

\* the shared objects are as constructed
SharedAsConstructed ==
  /\ signs = _build_sign_database
  /\ generator = [config |-> config, facial_expressions |-> facial_expressions,
                  body_postures |-> body_postures]

\* C18: interleaved generate_animation_sequence calls on one shared
\* generator and one shared repository do not interfere: no call writes the
\* repository's sign definitions, the generator's tables or any state
\* another call reads, so each call's frames, schedule and total duration
\* are those of the same call run alone, and the repository content after
\* any sequence of calls is its content after construction.
C18_CallsIndependent ==
  /\ [](/\ SharedAsConstructed
        /\ \A t \in Threads :
             LET alone == RunAlone(Locals(calls[t].animation_data.signs))
             IN  /\ RunAlone(calls[t]) = alone
                 /\ calls[t].gpc = "done"
                      => /\ calls[t].animation_data.frames = alone.animation_data.frames
                         /\ calls[t].animation_data.schedule = alone.animation_data.schedule
                         /\ calls[t].animation_data.total_duration
                              = alone.animation_data.total_duration)
  /\ [][/\ signs' = signs
        /\ generator' = generator
        /\ \A t \in Threads :
             calls'[t] # calls[t] => \A u \in Threads \ {t} : calls'[u] = calls[u]]_vars

C18_Witness ==
  /\ calls["t1"].gpc = "done"
  /\ calls["t2"].gpc = "done"
  /\ calls["t1"].animation_data.signs = <<"Hello", "Zebra">>
  /\ calls["t2"].animation_data.signs = <<"Zebra", "Hello">>
  /\ calls["t1"].animation_data.total_duration = 2100 + 300 + 1300
  /\ calls["t2"].animation_data.schedule[2].start_time = 1600
  /\ Len(calls["t1"].animation_data.frames) = 63 + 9 + 39
  /\ signs = _build_sign_database

\* ------------------------------------------------------------------------
\* Properties of a client's calls (specification SpecClient)
\* ------------------------------------------------------------------------
\* C19: empty input is valid and not an error: process("") and
\* map_to_isl("") return an empty sign list, and
\* generate_animation_sequence([]) returns no frames, an empty schedule and
\* total duration 0.
C19_EmptyInput ==
  /\ (text = <<>> /\ pc = "done") => result.isl_signs = <<>>
  /\ (text = <<>> /\ pc = "returned") => valid_signs = <<>>
  /\ (gpc = "done" /\ animation_data.signs = <<>>)
       => /\ animation_data.frames = <<>>
          /\ animation_data.schedule = <<>>
          /\ animation_data.total_duration = 0

C19_Witness ==
  /\ text = <<>>
  /\ pc = "done"
  /\ result.isl_signs = <<>>
  /\ gpc = "done"
  /\ animation_data = [signs |-> <<>>, total_duration |-> 0, frames |-> <<>>,
                       schedule |-> <<>>]

\* ------------------------------------------------------------------------
\* Properties of _interpolate_landmarks (specification SpecLandmarks)
\* ------------------------------------------------------------------------
\* C21: applied to two hand poses of different lengths, _interpolate_landmarks
\* does not raise and returns a pose whose length is the shorter of the two,
\* computed index by index from the first min(len) landmarks of each.
C21_ShorterLength ==
  rpc = "landmarks"
    => LET n == IF Len(query.start) <= Len(query.end) THEN Len(query.start)
                ELSE Len(query.end)
       IN  /\ answer \in Seq([x : Int, y : Int, z : Int])
           /\ Len(answer) = n
           /\ \A i \in 1..n :
                /\ answer[i].x = query.start[i].x
                     + ((query.end[i].x - query.start[i].x) * query.progress) \div ProgressUnit
                /\ answer[i].y = query.start[i].y
                     + ((query.end[i].y - query.start[i].y) * query.progress) \div ProgressUnit
                /\ answer[i].z = query.start[i].z
                     + ((query.end[i].z - query.start[i].z) * query.progress) \div ProgressUnit
           /\ answer = _interpolate_landmarks(SubSeq(query.start, 1, n),
                                              SubSeq(query.end, 1, n), query.progress)

C21_Witness ==
  /\ rpc = "landmarks"
  /\ Len(query.start) = 21
  /\ Len(query.end) = 2
  /\ query.progress = ProgressUnit \div 2
  /\ Len(answer) = 2
  /\ answer[2].x = (query.start[2].x + query.end[2].x) \div 2
  /\ answer[2] # query.start[2]

\* ------------------------------------------------------------------------
\* Properties of the repository's tags and of the frames of every sign
\* (specification SpecVocabulary)
\* ------------------------------------------------------------------------
\* every definition the repository can return: the stored ones and the fallback
AllDefinitions == { signs[n] : n \in DOMAIN signs } \cup {_get_default_sign}

\* C22: every motion_type tag of a definition of the repository, the fallback
\* definition included, is a key of the synthesizer's motion function table,
\* so for repository signs the fall-back-to-static lookup is never taken.
C22_MotionTableTotal ==
  /\ \A d \in AllDefinitions : d.motion_type \in motion_pattern_keys
  /\ \A j \in DOMAIN animation_data.frames :
       LET f == animation_data.frames[j]
       IN  f.sign # "transition"
             => /\ f.motion_type = get_sign(f.sign).motion_type
                /\ f.motion_type \in motion_pattern_keys

C22_Witness ==
  /\ gpc = "done"
  /\ animation_data.signs = <<"You">>
  /\ signs["You"].motion_type = "pointing_out"
  /\ animation_data.frames[1].motion_type = "pointing_out"
  /\ { signs[n].motion_type : n \in DOMAIN signs } = motion_pattern_keys

\* C23: every sign definition held by the repository has a sign_type in
\* {letter, number, word, phrase, animated}.
C23_SignTypes ==
  \A n \in DOMAIN signs : signs[n].type \in {"letter", "number", "word", "phrase", "animated"}

\* a hand pose of 21 landmarks, each with the coordinates x, y, z
IsHandPose(pose) ==
  /\ DOMAIN pose = 1..21
  /\ \A i \in 1..21 : DOMAIN pose[i] = {"x", "y", "z"}

\* C24: every frame, sign frame or transition frame and whatever the motion
\* type, has a right-hand pose of exactly 21 landmarks in the repository's
\* landmark index order and a left hand that is null or exactly 21
\* landmarks: motion functions change coordinates only.
C24_TwentyOneLandmarks ==
  \A j \in DOMAIN animation_data.frames :
    LET f         == animation_data.frames[j]
        keyframes == get_sign(f.sign).keyframes
    IN  /\ IsHandPose(f.right_hand)
        /\ f.left_hand # None => IsHandPose(f.left_hand)
        /\ (f.sign # "transition" /\ f.motion_type = "static")
             => f.right_hand = keyframes[1].right_hand
        /\ (f.sign # "transition" /\ f.motion_type \in {"wave", "downward", "opening"})
             => \A i \in 1..21 :
                  /\ f.right_hand[i].x - f.right_hand[1].x
                       = keyframes[1].right_hand[i].x - keyframes[1].right_hand[1].x
                  /\ f.right_hand[i].y - f.right_hand[1].y
                       = keyframes[1].right_hand[i].y - keyframes[1].right_hand[1].y
        /\ (f.sign = "transition" /\ f.frame_number = 0)
             => \E n \in DOMAIN animation_data.signs :
                  LET from == get_sign(animation_data.signs[n]).keyframes
                  IN  f.right_hand = from[Len(from)].right_hand

C24_Witness ==
  /\ gpc = "done"
  /\ animation_data.signs = <<"Parent", "A">>
  /\ signs["Parent"].motion_type # "static"
  /\ Len(animation_data.frames[1].right_hand) = 21
  /\ animation_data.frames[1].left_hand # None
  /\ Len(animation_data.frames[1].left_hand) = 21
  /\ \E j \in DOMAIN animation_data.frames :
       /\ animation_data.frames[j].sign = "transition"
       /\ Len(animation_data.frames[j].right_hand) = 21
  /\ \E j \in DOMAIN animation_data.frames :
       /\ animation_data.frames[j].sign = "Parent"
       /\ animation_data.frames[j].right_hand # signs["Parent"].keyframes[1].right_hand

\* ------------------------------------------------------------------------
\* Properties of timestamps and frame ranges (specification SpecGen)
\* ------------------------------------------------------------------------
\* C25: across the frames list of one call the timestamps are strictly
\* increasing: consecutive frames of a block are one frame period apart, the
\* first frame of a sign block has the timestamp of the sign's schedule
\* start_time, and the first frame of a transition block has the timestamp
\* of the preceding sign's end_time.  (Timestamps are in units of 1/30 ms.)
C25_TimestampsIncrease ==
  LET frames == animation_data.frames
      s      == animation_data.schedule
  IN  /\ \A j \in 1..(Len(frames) - 1) : frames[j].timestamp < frames[j + 1].timestamp
      /\ \A j \in 1..(Len(frames) - 1) :
           frames[j + 1].frame_number # 0
             => frames[j + 1].timestamp - frames[j].timestamp = 1000
      /\ \A k \in DOMAIN s :
           /\ frames[s[k].frame_start + 1].frame_number = 0
           /\ frames[s[k].frame_start + 1].timestamp = s[k].start_time * 30
           /\ s[k].frame_start + s[k].frame_count < Len(frames)
                => LET t == frames[s[k].frame_start + s[k].frame_count + 1]
                   IN  /\ t.sign = "transition"
                       /\ t.frame_number = 0
                       /\ t.timestamp = s[k].end_time * 30

C25_Witness ==
  /\ gpc = "done"
  /\ animation_data.signs = <<"Cat", "1", "Thank you">>
  /\ animation_data.frames[46].sign = "transition"
  /\ animation_data.frames[46].timestamp = 1500 * 30
  /\ animation_data.frames[45].timestamp = 1500 * 30 - 1000
  /\ animation_data.frames[55].sign = "1"
  /\ animation_data.frames[55].timestamp = animation_data.schedule[2].start_time * 30
  /\ animation_data.schedule[2].start_time = 1800

\* the number of frames of a transition block
TransitionFrames == frame_count(generator.config.transition_duration, 3)

RECURSIVE SumFrameCounts(_)
SumFrameCounts(s) == IF s = <<>> THEN 0 ELSE Head(s).frame_count + SumFrameCounts(Tail(s))

\* C26: for every schedule entry frame_start and frame_count delimit exactly
\* that sign's frames: frames[frame_start .. frame_start + frame_count - 1]
\* carry the entry's sign token and no transition frame; for consecutive
\* entries frame_start[i+1] = frame_start[i] + frame_count[i] + the number of
\* transition frames; the total number of frames is the sum of the
\* frame_count values plus (n - 1) transition blocks.
C26_FrameRanges ==
  LET frames == animation_data.frames
      s      == animation_data.schedule
      n      == Len(s)
  IN  /\ \A k \in DOMAIN s :
           /\ s[k].frame_count >= 1
           /\ s[k].frame_start + s[k].frame_count <= Len(frames)
           /\ \A j \in DOMAIN frames :
                (j > s[k].frame_start /\ j <= s[k].frame_start + s[k].frame_count)
                  => (frames[j].sign = s[k].sign /\ frames[j].sign # "transition")
           /\ s[k].frame_start > 0 => frames[s[k].frame_start].sign = "transition"
           /\ s[k].frame_start + s[k].frame_count < Len(frames)
                => frames[s[k].frame_start + s[k].frame_count + 1].sign = "transition"
      /\ \A k \in 1..(n - 1) :
           s[k + 1].frame_start = s[k].frame_start + s[k].frame_count + TransitionFrames
      /\ (gpc = "done" /\ n >= 1)
           => Len(frames) = SumFrameCounts(s) + (n - 1) * TransitionFrames
      /\ TransitionFrames = 9

C26_Witness ==
  /\ gpc = "done"
  /\ animation_data.signs = <<"Good night", "Zebra", "A">>
  /\ animation_data.schedule[1].frame_start = 0
  /\ animation_data.schedule[2].frame_start = 60 + 9
  /\ animation_data.schedule[3].frame_start = 60 + 9 + 39 + 9
  /\ Len(animation_data.frames) = 60 + 39 + 24 + 2 * 9
  /\ animation_data.frames[69].sign = "transition"
  /\ animation_data.frames[70].sign = "Zebra"

\* ------------------------------------------------------------------------
\* Properties of letters and of one-handed signs (specification SpecVocabulary)
\* ------------------------------------------------------------------------
\* C27: every single-letter token 'A' .. 'Z' resolves in the repository to a
\* definition of sign_type 'letter' with static motion, so every
\* fingerspelled letter is scheduled for exactly 800 ms.
C27_LettersAre800ms ==
  /\ \A letter \in Range(Uppercase) :
       /\ get_sign(letter).type = "letter"
       /\ get_sign(letter).motion_type = "static"
  /\ \A k \in DOMAIN animation_data.schedule :
       animation_data.schedule[k].sign \in Range(Uppercase)
         => animation_data.schedule[k].duration = 800

\* C30: every frame of a sign whose definition has two_hands = false has a
\* null left hand, so a frame carries a left-hand pose only when its
\* two_hands flag is true.
C30_OneHandedFramesHaveNoLeftHand ==
  \A j \in DOMAIN animation_data.frames :
    LET f == animation_data.frames[j]
    IN  /\ (f.sign # "transition" /\ ~get_sign(f.sign).two_hands) => f.left_hand = None
        /\ f.left_hand # None => f.two_hands

\* ------------------------------------------------------------------------
\* Properties of phrase detection and of the allow-list
\* ------------------------------------------------------------------------
\* s with one blank before and one after
Padded(s) == <<" ">> \o s \o <<" ">>

\* C28 (specification SpecClient): detect_phrases reports a phrase only when
\* the phrase's words occur as whole space-delimited words of the
\* preprocessed text; a text in which the phrase's characters occur only as
\* part of longer words yields no phrase token and keeps its words intact
\* for tokenization.
C28_PhrasesAreWholeWords ==
  pc \in {"phrases", "tokens", "lemmatized", "filtered", "mapped", "done"}
    => /\ \A i \in DOMAIN result.phrases_detected :
            str_contains(Padded(PhraseKeyOf(result.phrases_detected[i])),
                         Padded(result.preprocessed))
       /\ (\A i \in DOMAIN phrases :
             ~str_contains(Padded(phrases[i][1]), Padded(result.preprocessed)))
            => /\ result.phrases_detected = <<>>
               /\ remaining_text = result.preprocessed

\* C29 (specification Spec): every word of the stop-word allow-list has a
\* direct word-to-sign mapping, so an allow-list word standing outside any
\* detected phrase produces exactly one word sign and is never fingerspelled
\* letter by letter.
C29_AllowListWordsMapped ==
  /\ \A w \in keep_words : w \in DOMAIN word_to_sign
  /\ pc \in {"mapped", "done"}
       => \A i \in DOMAIN result.filtered :
            result.filtered[i] \in keep_words
              => /\ HasMapping(result.filtered[i])
                 /\ InSeq(word_to_sign[result.filtered[i]], word_signs)
                 /\ SpellOf(result.filtered[i]) = <<>>

====
